---- MODULE Spec2Model ----
(***************************************************************************)
(* A model of Prime.Widget.MultipleSelect (src/src/main/js/widget.js).     *)
(*                                                                         *)
(* The widget keeps two views of one selection: the native <select>       *)
(* element (a list of <option> elements, each with a value, a display      *)
(* text and a selected attribute) and a <ul> of chip rows (<li>) that ends *)
(* with the input row.  The two are tied together only through element     *)
(* ids: the chip of an option is looked up in the document by              *)
(* makeOptionID(option).                                                   *)
(*                                                                         *)
(* Strings are sequences of one-character strings, so that                 *)
(* String.replace and id comparison are computed, not assumed.             *)
(*                                                                         *)
(* The later sections model the other widgets and utilities of the         *)
(* toolkit, each on a page of its own: PrimeDate, Touchable, AJAXDialog,   *)
(* SlideOpen, Template and DatePicker.                                     *)
(***************************************************************************)
EXTENDS Integers, Sequences, FiniteSets, TLC

VARIABLES
  options,          \* the <option> children of the select element, in DOM order
  children,         \* the children of the <ul> option list, in DOM order
  listAttached,     \* whether the <ul> option list is in the document
  allowDuplicates,  \* the allowDuplicates configuration (fixed after initialize)
  lastCall,         \* history: the last public call, whether its value existed, whether it threw
  present,          \* history: values added and not removed since
  chosen,           \* history (duplicates disallowed): the values selected and not deselected
                    \* since, in selection order
  roundTrip,        \* history: a select of an unselected value and the deselect right after it
  inputText,        \* the value of the Searcher's text input
  searchRows,       \* the rows rendered in the search results list, in order
  highlightedIndex, \* the index in searchRows of the row with the class 'selected', 0 if none
  resultsVisible,   \* whether the search results list is open
  customAddEnabled, \* the customAddEnabled configuration (fixed after initialize)
  history,          \* history: the arguments of the last call and the chip values before it
  element,          \* the element the widget is bound to and what the constructor did to the page
  searchDisplayed,  \* MultipleSelect.searchDisplayed
  inputOptionShown, \* whether the current input row (inputOption) is shown
  date,             \* the Date object handed to PrimeDate and what was asked of it
  touchable,        \* the fields of one Touchable, the clock and the events it fired
  ajaxDialog,       \* one AJAXDialog, its timers, the dialogs in the document and the Overlay
  slideOpen,        \* the element of one SlideOpen, the clock and the pending timers
  template,         \* one run of Template.generate: the loop position and templateCopy
  datePicker        \* the month span of one DatePicker

searcherVars == <<inputText, searchRows, highlightedIndex, resultsVisible, customAddEnabled>>

vars == <<options, children, listAttached, allowDuplicates, lastCall, present, chosen, roundTrip,
          inputText, searchRows, highlightedIndex, resultsVisible, customAddEnabled, history,
          element, searchDisplayed, inputOptionShown, date, touchable, ajaxDialog, slideOpen,
          template, datePicker>>

\* The state of the search row of the MultipleSelect and of the other widgets of the page.
otherVars == <<searchDisplayed, inputOptionShown, date, touchable, ajaxDialog, slideOpen,
               template, datePicker>>

\* A widget the page does not use.
NotConstructed == [widget |-> "none"]

\* A page whose only widget is the MultipleSelect, as its constructor leaves it
\* (widget.js:35-36: the input row hidden, searchDisplayed false).
OnlyMultipleSelect ==
  /\ searchDisplayed = FALSE
  /\ inputOptionShown = FALSE
  /\ date = NotConstructed
  /\ touchable = NotConstructed
  /\ ajaxDialog = NotConstructed
  /\ slideOpen = NotConstructed
  /\ template = NotConstructed
  /\ datePicker = NotConstructed

(***************************************************************************)
(* Bounds of the model.                                                    *)
(***************************************************************************)
MaxOptions == 2
MaxInitOptions == 1
MaxChips == 2

(***************************************************************************)
(* Strings.                                                                *)
(***************************************************************************)
ElemId == <<"m", "s">>

SufOptionList == <<"-", "o", "p", "t", "i", "o", "n", "-", "l", "i", "s", "t">>
SufInputOption == <<"-", "i", "n", "p", "u", "t", "-", "o", "p", "t", "i", "o", "n">>
SufOption == <<"-", "o", "p", "t", "i", "o", "n", "-">>

ValA == <<"a">>
ValASpaceB == <<"a", " ", "b">>
ValAHyphenB == <<"a", "-", "b">>
ValList == <<"l", "i", "s", "t">>

Values == {ValA, ValASpaceB, ValAHyphenB, ValList}

NoValue == <<>>

\* The display text passed with a value.
DisplaysOf(v) ==
  IF v = ValA THEN {<<"A">>}
  ELSE IF v = ValASpaceB THEN {<<"A", " ", "B">>}
  ELSE IF v = ValAHyphenB THEN {<<"A", "-", "B">>}
  ELSE {<<"L", "i", "s", "t">>}

\* The index of the first occurrence of character c in s, 0 if there is none.
IndexOf(s, c) ==
  IF \E i \in 1..Len(s) : s[i] = c
    THEN CHOOSE i \in 1..Len(s) : s[i] = c /\ \A j \in 1..(i - 1) : s[j] # c
    ELSE 0

\* String.prototype.replace with a string pattern: only the first occurrence.
ReplaceFirst(s, c, r) ==
  LET i == IndexOf(s, c) IN IF i = 0 THEN s ELSE [s EXCEPT ![i] = r]

(***************************************************************************)
(* Sequences.                                                              *)
(***************************************************************************)
RemoveAt(s, i) == SubSeq(s, 1, i - 1) \o SubSeq(s, i + 1, Len(s))

InsertAt(s, i, x) == SubSeq(s, 1, i - 1) \o <<x>> \o SubSeq(s, i, Len(s))

RECURSIVE Without(_, _)
Without(s, x) ==
  IF s = <<>> THEN <<>>
  ELSE IF Head(s) = x THEN Without(Tail(s), x)
  ELSE <<Head(s)>> \o Without(Tail(s), x)

Range(s) == {s[i] : i \in 1..Len(s)}

(***************************************************************************)
(* The document: the part of the DOM the widget reads and writes.          *)
(***************************************************************************)
Dom == [options |-> options, children |-> children, attached |-> listAttached]

OptionListId == ElemId \o SufOptionList

InputRow ==
  [kind |-> "input", id |-> ElemId \o SufInputOption, value |-> NoValue, html |-> <<>>,
   highlighted |-> FALSE]

NoNode == [kind |-> "none", idx |-> 0]

\* Prime.Dom.queryByID: the first element of the document with the id. The ids
\* of the select element (ElemId) and of the display container
\* (ElemId + '-display') never equal an option id, which starts with ElemId + '-option-'.
queryByID(d, id) ==
  IF ~d.attached THEN NoNode
  ELSE IF OptionListId = id THEN [kind |-> "list", idx |-> 0]
  ELSE IF \E i \in 1..Len(d.children) : d.children[i].id = id
    THEN [kind |-> "row",
          idx |-> CHOOSE i \in 1..Len(d.children) :
                    /\ d.children[i].id = id
                    /\ \A j \in 1..(i - 1) : d.children[j].id # id]
  ELSE NoNode

\* Element.removeFromDOM on a node queryByID returned.
removeFromDOM(d, node) ==
  IF node.kind = "list" THEN [d EXCEPT !.attached = FALSE]
  ELSE IF node.kind = "row" THEN [d EXCEPT !.children = RemoveAt(d.children, node.idx)]
  ELSE d

makeOptionID(option) == ElemId \o SufOption \o ReplaceFirst(option.value, " ", "-")

findOptionWithValue_SkipsLast(d, value) ==
  IF \E i \in 1..(Len(d.options) - 1) : d.options[i].value = value
    THEN CHOOSE i \in 1..(Len(d.options) - 1) :
           /\ d.options[i].value = value
           /\ \A j \in 1..(i - 1) : d.options[j].value # value
    ELSE 0

\* The index of the first option with the value; 0 stands for null.
findOptionWithValue(d, value) ==
  IF \E i \in 1..Len(d.options) : d.options[i].value = value
    THEN CHOOSE i \in 1..Len(d.options) :
           /\ d.options[i].value = value
           /\ \A j \in 1..(i - 1) : d.options[j].value # value
    ELSE 0

containsOptionWithValue(d, value) == findOptionWithValue(d, value) # 0

addOption_NoContainsCheck(d, value, display) ==
  [d EXCEPT !.options = Append(d.options, [value |-> value, html |-> display, selected |-> FALSE])]

addOption(d, value, display) ==
  IF containsOptionWithValue(d, value) THEN d
  ELSE [d EXCEPT !.options = Append(d.options, [value |-> value, html |-> display, selected |-> FALSE])]

\* The position of the input row among the children of the list, 0 if it is not there.
InputIndex(rows) ==
  IF \E i \in 1..Len(rows) : rows[i].kind = "input"
    THEN CHOOSE i \in 1..Len(rows) : rows[i].kind = "input"
    ELSE 0

NewChip(option) ==
  [kind |-> "chip", id |-> makeOptionID(option), value |-> option.value, html |-> option.html,
   highlighted |-> FALSE]

selectOption_AppendsToList(d, i) ==
  IF queryByID(d, makeOptionID(d.options[i])).kind = "none"
    THEN [d EXCEPT !.options[i].selected = TRUE,
                   !.children = Append(d.children, NewChip(d.options[i]))]
    ELSE d

\* selectOption on the i-th option of the select.
selectOption(d, i) ==
  IF queryByID(d, makeOptionID(d.options[i])).kind = "none"
    THEN [d EXCEPT !.options[i].selected = TRUE,
                   !.children = InsertAt(d.children, InputIndex(d.children), NewChip(d.options[i]))]
    ELSE d

selectOptionWithValue_SilentOnMissing(d, value) ==
  LET i == findOptionWithValue(d, value) IN
  IF i = 0 THEN [dom |-> d, threw |-> FALSE]
  ELSE [dom |-> selectOption(d, i), threw |-> FALSE]

selectOptionWithValue(d, value) ==
  LET i == findOptionWithValue(d, value) IN
  IF i = 0 THEN [dom |-> d, threw |-> TRUE]
  ELSE [dom |-> selectOption(d, i), threw |-> FALSE]

\* deselectOption on the i-th option of the select.
deselectOption(d, i) ==
  LET d1 == [d EXCEPT !.options[i].selected = FALSE]
      displayOption == queryByID(d1, makeOptionID(d1.options[i]))
  IN IF displayOption.kind # "none" THEN removeFromDOM(d1, displayOption) ELSE d1

deselectOptionWithValue(d, value) ==
  LET i == findOptionWithValue(d, value) IN
  IF i = 0 THEN [dom |-> d, threw |-> TRUE]
  ELSE [dom |-> deselectOption(d, i), threw |-> FALSE]

\* removeOption on the i-th option of the select.
removeOption(d, i) ==
  LET option == d.options[i]
      d1 == [d EXCEPT !.options = RemoveAt(d.options, i)]
      displayOption == queryByID(d1, makeOptionID(option))
  IN IF displayOption.kind # "none" THEN removeFromDOM(d1, displayOption) ELSE d1

removeOptionWithValue(d, value) ==
  LET i == findOptionWithValue(d, value) IN
  IF i = 0 THEN [dom |-> d, threw |-> TRUE]
  ELSE [dom |-> removeOption(d, i), threw |-> FALSE]

\* The loop of removeAllOptions, from index i down to the first option.
RECURSIVE removeAllFrom(_, _)
removeAllFrom(d, i) ==
  IF i < 1 THEN d ELSE removeAllFrom(removeOption(d, i), i - 1)

removeAllOptions(d) == removeAllFrom(d, Len(d.options))

\* The loop of rebuildDisplay over the options, from index i on.
RECURSIVE rebuildFrom(_, _)
rebuildFrom(d, i) ==
  IF i > Len(d.options) THEN d
  ELSE rebuildFrom(IF d.options[i].selected THEN selectOption(d, i) ELSE d, i + 1)

rebuildDisplay(d) == rebuildFrom([d EXCEPT !.children = <<InputRow>>], 1)

(***************************************************************************)
(* The chip rows and what the selection reads as.                          *)
(***************************************************************************)
Chips == SelectSeq(children, LAMBDA r : r.kind = "chip")

ChipValuesOf(rows) == [i \in 1..Len(rows) |-> rows[i].value]

\* getSelectedValues: the values of the chosen list, in display order.
getSelectedValues == ChipValuesOf(Chips)

SelectedCount == Cardinality({i \in 1..Len(options) : options[i].selected})

(***************************************************************************)
(* Initial states: the constructor (widget.js:25-63) on a select element   *)
(* whose options have distinct values and any selected attributes.         *)
(***************************************************************************)
OptionRecords == UNION {[value : {v}, html : DisplaysOf(v), selected : BOOLEAN] : v \in Values}

ValuesOf(os) == {os[i].value : i \in 1..Len(os)}

\* The lists of at most n options with distinct values.
RECURSIVE OptionLists(_)
OptionLists(n) ==
  IF n = 0 THEN {<<>>}
  ELSE LET shorter == OptionLists(n - 1) IN
       shorter \cup
       UNION {{Append(os, o) : o \in {r \in OptionRecords : r.value \notin ValuesOf(os)}} :
                os \in {t \in shorter : Len(t) = n - 1}}

NoRoundTrip == [phase |-> "none", value |-> NoValue, selBefore |-> 0, chipsBefore |-> 0]

NoHistory == [args |-> <<>>, chipsBefore |-> <<>>, visibleBefore |-> FALSE]

\* The Searcher before any search: empty input, no rows, results closed.
SearcherClosed ==
  /\ inputText = <<>>
  /\ searchRows = <<>>
  /\ highlightedIndex = 0
  /\ resultsVisible = FALSE

ChipRowsOf(rows) == SelectSeq(rows, LAMBDA r : r.kind = "chip")

\* The element after a successful construction: a select with multiple="multiple",
\* hidden, with the display container in the document.
Constructed == [tagName |-> "SELECT", multiple |-> "multiple", hidden |-> TRUE, display |-> TRUE]

\* The constructor: the list is created in the document, then rebuildDisplay.
Construct(os) == rebuildDisplay([options |-> os, children |-> <<>>, attached |-> TRUE])

Init ==
  \E os \in OptionLists(MaxInitOptions) :
    LET d == Construct(os) IN
    /\ options = d.options
    /\ children = d.children
    /\ listAttached = d.attached
    /\ allowDuplicates = FALSE
    /\ lastCall = [op |-> "init", existed |-> FALSE, threw |-> FALSE]
    /\ present = ValuesOf(os)
    /\ chosen = ChipValuesOf(ChipRowsOf(d.children))
    /\ roundTrip = NoRoundTrip
    /\ SearcherClosed
    /\ customAddEnabled = FALSE
    /\ history = NoHistory
    /\ element = Constructed
    /\ OnlyMultipleSelect

(***************************************************************************)
(* The public operations, one action each.                                 *)
(***************************************************************************)
Apply(d) ==
  /\ options' = d.options
  /\ children' = d.children
  /\ listAttached' = d.attached

Called(op, existed, threw) == lastCall' = [op |-> op, existed |-> existed, threw |-> threw]

\* Whether the value reads as unselected: its option is not selected and no chip shows it.
Unselected(value) ==
  /\ \A i \in 1..Len(options) : options[i].value = value => ~options[i].selected
  /\ \A i \in 1..Len(children) : children[i].value # value

AddOption(value, display) ==
  /\ \/ Len(options) < MaxOptions
     \/ containsOptionWithValue(Dom, value) /\ Len(options) <= MaxOptions
  /\ Apply(addOption(Dom, value, display))
  /\ Called("addOption", value \in ValuesOf(options), FALSE)
  /\ UNCHANGED <<element, otherVars>>
  /\ present' = present \cup {value}
  /\ roundTrip' = NoRoundTrip
  /\ UNCHANGED <<allowDuplicates, chosen>>
  /\ history' = NoHistory
  /\ UNCHANGED searcherVars

SelectOptionWithValue(value) ==
  LET r == selectOptionWithValue(Dom, value) IN
  /\ Len(ChipRowsOf(r.dom.children)) <= MaxChips
  /\ Apply(r.dom)
  /\ Called("select", value \in ValuesOf(options), r.threw)
  /\ UNCHANGED <<element, otherVars>>
  /\ chosen' = IF r.threw \/ value \in Range(chosen) THEN chosen ELSE Append(chosen, value)
  /\ roundTrip' = IF ~r.threw /\ Unselected(value)
                    THEN [phase |-> "selected", value |-> value,
                          selBefore |-> SelectedCount, chipsBefore |-> Len(Chips)]
                    ELSE NoRoundTrip
  /\ UNCHANGED <<allowDuplicates, present>>
  /\ history' = NoHistory
  /\ UNCHANGED searcherVars

DeselectOptionWithValue(value) ==
  LET r == deselectOptionWithValue(Dom, value) IN
  /\ Apply(r.dom)
  /\ Called("deselect", value \in ValuesOf(options), r.threw)
  /\ UNCHANGED <<element, otherVars>>
  /\ chosen' = IF r.threw THEN chosen ELSE Without(chosen, value)
  /\ roundTrip' = IF ~r.threw /\ roundTrip.phase = "selected" /\ roundTrip.value = value
                    THEN [roundTrip EXCEPT !.phase = "done"]
                    ELSE NoRoundTrip
  /\ UNCHANGED <<allowDuplicates, present>>
  /\ history' = NoHistory
  /\ UNCHANGED searcherVars

RemoveOptionWithValue(value) ==
  LET r == removeOptionWithValue(Dom, value) IN
  /\ Apply(r.dom)
  /\ Called("remove", value \in ValuesOf(options), r.threw)
  /\ UNCHANGED <<element, otherVars>>
  /\ present' = IF r.threw THEN present ELSE present \ {value}
  /\ chosen' = IF r.threw THEN chosen ELSE Without(chosen, value)
  /\ roundTrip' = NoRoundTrip
  /\ UNCHANGED allowDuplicates
  /\ history' = NoHistory
  /\ UNCHANGED searcherVars

RemoveAllOptions ==
  /\ Apply(removeAllOptions(Dom))
  /\ Called("removeAll", FALSE, FALSE)
  /\ UNCHANGED <<element, otherVars>>
  /\ present' = {}
  /\ chosen' = <<>>
  /\ roundTrip' = NoRoundTrip
  /\ UNCHANGED allowDuplicates
  /\ history' = NoHistory
  /\ UNCHANGED searcherVars

Next ==
  \/ \E v \in Values : \E h \in DisplaysOf(v) : AddOption(v, h)
  \/ \E v \in Values : SelectOptionWithValue(v)
  \/ \E v \in Values : DeselectOptionWithValue(v)
  \/ \E v \in Values : RemoveOptionWithValue(v)
  \/ RemoveAllOptions

Spec == Init /\ [][Next]_vars

(***************************************************************************)
(* The allowDuplicates mode.  widget.js has no such mode; these operations *)
(* follow the description of MultipleSelect with allowDuplicates enabled:  *)
(* addOption always appends, selectOption always marks the option selected *)
(* and inserts a new chip before the input row, deselectOption removes one *)
(* chip of the option and unmarks the option when none of its chips is     *)
(* left.                                                                   *)
(***************************************************************************)
addOptionDup(d, value, display) ==
  [d EXCEPT !.options = Append(d.options, [value |-> value, html |-> display, selected |-> FALSE])]

selectOptionDup_SkipsWhenChipExists(d, i) ==
  IF queryByID(d, makeOptionID(d.options[i])).kind = "none"
    THEN [d EXCEPT !.options[i].selected = TRUE,
                   !.children = InsertAt(d.children, InputIndex(d.children), NewChip(d.options[i]))]
    ELSE d

selectOptionDup(d, i) ==
  [d EXCEPT !.options[i].selected = TRUE,
            !.children = InsertAt(d.children, InputIndex(d.children), NewChip(d.options[i]))]

selectOptionWithValueDup(d, value) ==
  LET i == findOptionWithValue(d, value) IN
  IF i = 0 THEN [dom |-> d, threw |-> TRUE]
  ELSE [dom |-> selectOptionDup(d, i), threw |-> FALSE]

deselectOptionDup(d, i) ==
  LET option == d.options[i]
      displayOption == queryByID(d, makeOptionID(option))
      d1 == IF displayOption.kind # "none" THEN removeFromDOM(d, displayOption) ELSE d
      left == \E k \in 1..Len(d1.children) : d1.children[k].id = makeOptionID(option)
  IN IF left THEN d1 ELSE [d1 EXCEPT !.options[i].selected = FALSE]

deselectOptionWithValueDup(d, value) ==
  LET i == findOptionWithValue(d, value) IN
  IF i = 0 THEN [dom |-> d, threw |-> TRUE]
  ELSE [dom |-> deselectOptionDup(d, i), threw |-> FALSE]

RECURSIVE rebuildFromDup(_, _)
rebuildFromDup(d, i) ==
  IF i > Len(d.options) THEN d
  ELSE rebuildFromDup(IF d.options[i].selected THEN selectOptionDup(d, i) ELSE d, i + 1)

ConstructDup(os) ==
  rebuildFromDup([options |-> os, children |-> <<InputRow>>, attached |-> TRUE], 1)

\* The values used with allowDuplicates enabled.
DupValues == {ValA, ValASpaceB, ValAHyphenB}

InitDup ==
  \E os \in {l \in OptionLists(MaxInitOptions) : ValuesOf(l) \subseteq DupValues} :
    LET d == ConstructDup(os) IN
    /\ options = d.options
    /\ children = d.children
    /\ listAttached = d.attached
    /\ allowDuplicates = TRUE
    /\ lastCall = [op |-> "init", existed |-> FALSE, threw |-> FALSE]
    /\ present = ValuesOf(os)
    /\ chosen = <<>>
    /\ roundTrip = NoRoundTrip
    /\ SearcherClosed
    /\ customAddEnabled = FALSE
    /\ history = NoHistory
    /\ element = Constructed
    /\ OnlyMultipleSelect

AddOptionDup(value, display) ==
  /\ Len(options) < MaxOptions
  /\ Apply(addOptionDup(Dom, value, display))
  /\ Called("addOption", value \in ValuesOf(options), FALSE)
  /\ UNCHANGED <<element, otherVars>>
  /\ present' = present \cup {value}
  /\ roundTrip' = NoRoundTrip
  /\ UNCHANGED <<allowDuplicates, chosen>>
  /\ history' = NoHistory
  /\ UNCHANGED searcherVars

\* Two selects of one value in a row take roundTrip from "selected" to "twice".
SelectOptionWithValueDup(value) ==
  LET r == selectOptionWithValueDup(Dom, value) IN
  /\ Len(ChipRowsOf(r.dom.children)) <= MaxChips
  /\ Apply(r.dom)
  /\ Called("select", value \in ValuesOf(options), r.threw)
  /\ UNCHANGED <<element, otherVars>>
  /\ roundTrip' = IF r.threw THEN NoRoundTrip
                  ELSE IF roundTrip.phase = "selected" /\ roundTrip.value = value
                    THEN [roundTrip EXCEPT !.phase = "twice"]
                  ELSE [phase |-> "selected", value |-> value,
                        selBefore |-> SelectedCount, chipsBefore |-> Len(Chips)]
  /\ UNCHANGED <<allowDuplicates, present, chosen>>
  /\ history' = NoHistory
  /\ UNCHANGED searcherVars

DeselectOptionWithValueDup(value) ==
  LET r == deselectOptionWithValueDup(Dom, value) IN
  /\ Apply(r.dom)
  /\ Called("deselect", value \in ValuesOf(options), r.threw)
  /\ UNCHANGED <<element, otherVars>>
  /\ roundTrip' = NoRoundTrip
  /\ UNCHANGED <<allowDuplicates, present, chosen>>
  /\ history' = NoHistory
  /\ UNCHANGED searcherVars

NextDup ==
  \/ \E v \in DupValues : \E h \in DisplaysOf(v) : AddOptionDup(v, h)
  \/ \E v \in DupValues : SelectOptionWithValueDup(v)
  \/ \E v \in DupValues : DeselectOptionWithValueDup(v)

SpecDup == InitDup /\ [][NextDup]_vars

(***************************************************************************)
(* Properties.                                                             *)
(***************************************************************************)
HasChip(v) == \E i \in 1..Len(Chips) : Chips[i].value = v

\* Every chip row corresponds to exactly one option of the backing list that
\* is marked selected, and every selected option has exactly one chip row.
ChipsMatchSelectedOptions(os, rows) ==
  /\ \A i \in 1..Len(rows) :
       rows[i].kind = "chip" =>
         Cardinality({j \in 1..Len(os) : os[j].value = rows[i].value /\ os[j].selected}) = 1
  /\ \A j \in 1..Len(os) :
       os[j].selected =>
         Cardinality({i \in 1..Len(rows) : rows[i].kind = "chip" /\ rows[i].value = os[j].value}) = 1

\* C1: after any sequence of addOption, removeOption, removeAllOptions,
\* selectOption and deselectOption, every chip row corresponds to exactly one
\* selected option and every selected option has exactly one chip row: no
\* operation takes a state where this holds to a state where it does not.
C1_ChipsMatchSelectedOptions ==
  [][ChipsMatchSelectedOptions(options, children)
       => ChipsMatchSelectedOptions(options', children')]_vars

\* C2: containsOptionWithValue(v) is true exactly when v has been added and
\* not removed since its last add.
C2_ContainsReflectsNetPresence ==
  \A v \in Values : containsOptionWithValue(Dom, v) <=> v \in present

C2_Witness ==
  /\ lastCall.op = "remove"
  /\ ~lastCall.threw
  /\ Len(options) = 1
  /\ \E v \in Values : ~containsOptionWithValue(Dom, v)


\* C3: addOption leaves the backing list, the selection and the chip list
\* unchanged when an option with the value already exists; otherwise it appends
\* exactly one new unselected option at the end of the backing list and leaves
\* every existing option and the whole chip list unchanged.
C3_AddOptionFrame ==
  [][\A v \in Values : \A h \in DisplaysOf(v) :
       AddOption(v, h) =>
         /\ children' = children
         /\ listAttached' = listAttached
         /\ IF \E j \in 1..Len(options) : options[j].value = v
              THEN options' = options
              ELSE /\ Len(options') = Len(options) + 1
                   /\ \A j \in 1..Len(options) : options'[j] = options[j]
                   /\ options'[Len(options')].value = v
                   /\ options'[Len(options')].html = h
                   /\ ~options'[Len(options')].selected]_vars

C3_Witness ==
  /\ lastCall.op = "addOption"
  /\ ~lastCall.existed
  /\ Len(options) = 2
  /\ options[1].selected
  /\ ~options[2].selected
  /\ Len(Chips) = 1

\* C4: selecting a value that already has a chip leaves the selection flags of
\* the backing list and the chip list (content and order) exactly as they were.
C4_SelectIsIdempotent ==
  [][\A v \in Values :
       (SelectOptionWithValue(v) /\ HasChip(v)) =>
         options' = options /\ children' = children]_vars

\* C5: the chip rows appear in the order in which their options were selected,
\* and getSelectedValues() returns the selected values in that order.
C5_ChipsInSelectionOrder ==
  /\ ChipValuesOf(Chips) = chosen
  /\ getSelectedValues = chosen

\* C6: the input row is the last child of the chip list; no chip follows it.
C6_InputRowIsLast ==
  /\ Len(children) >= 1
  /\ children[Len(children)].kind = "input"
  /\ \A i \in 1..(Len(children) - 1) : children[i].kind = "chip"

C6_Witness ==
  /\ lastCall.op = "select"
  /\ Len(children) = 3
  /\ children[1].kind = "chip"
  /\ children[2].kind = "chip"
  /\ children[1].value # children[2].value

\* C7: selectOptionWithValue, deselectOptionWithValue and removeOptionWithValue
\* throw exactly when no option with the value exists, and then the backing
\* list, the selection and the chip list are unchanged.
C7_NotFoundThrowsAndChangesNothing ==
  [][/\ lastCall'.op \in {"select", "deselect", "remove"} =>
          (lastCall'.threw <=> ~lastCall'.existed)
     /\ lastCall'.threw =>
          options' = options /\ children' = children /\ listAttached' = listAttached]_vars

C7_Witness ==
  /\ lastCall.op = "select"
  /\ lastCall.threw
  /\ Len(options) >= 1
  /\ Len(Chips) >= 1

\* C8: deselectOption removes exactly the chip of the given option, marks that
\* option unselected when no chip for the value remains, never removes the
\* option record from the backing list, and leaves all other options and chips
\* unchanged.
C8_DeselectFrame ==
  [][\A v \in Values :
       (DeselectOptionWithValue(v) /\ ~lastCall'.threw) =>
         /\ Len(options') = Len(options)
         /\ \A j \in 1..Len(options) :
              /\ options'[j].value = options[j].value
              /\ options'[j].html = options[j].html
              /\ options[j].value # v => options'[j] = options[j]
              /\ (options[j].value = v /\ ~(\E i \in 1..Len(children') : children'[i].value = v))
                   => ~options'[j].selected
         /\ IF \E i \in 1..Len(children) : children[i].value = v
              THEN \E i \in 1..Len(children) :
                     children[i].value = v /\ children' = RemoveAt(children, i)
              ELSE children' = children
         /\ listAttached' = listAttached]_vars

\* C9: selecting an unselected value and then deselecting it restores the
\* number of selected options of the backing list and the number of chips.
C9_SelectDeselectRestoresCounts ==
  roundTrip.phase = "done" =>
    /\ SelectedCount = roundTrip.selBefore
    /\ Len(Chips) = roundTrip.chipsBefore

C11_RemoveOptionFrame ==
  [][\A v \in Values :
       (RemoveOptionWithValue(v) /\ v \in ValuesOf(options)) =>
         LET i == CHOOSE j \in 1..Len(options) : options[j].value = v IN
         /\ ~lastCall'.threw
         /\ options' = RemoveAt(options, i)
         /\ listAttached' = listAttached
         /\ IF options[i].selected
              THEN \E k \in 1..Len(children) :
                     /\ children[k].kind = "chip"
                     /\ children[k].value = v
                     /\ children' = RemoveAt(children, k)
              ELSE children' = children]_vars

(***************************************************************************)
(* selectableOptionsForPrefix, the search over the unselected options.     *)
(***************************************************************************)
\* The characters of the model in the order of their UTF-16 code units, which is
\* the order Array.prototype.sort() compares strings by.
CodeUnits == <<" ", "-", "A", "B", "L", "a", "b", "i", "l", "s", "t">>

CodeOf(c) == CHOOSE k \in 1..Len(CodeUnits) : CodeUnits[k] = c

\* s < t in the default order of Array.prototype.sort().
RECURSIVE StringLess(_, _)
StringLess(s, t) ==
  IF t = <<>> THEN FALSE
  ELSE IF s = <<>> THEN TRUE
  ELSE IF Head(s) = Head(t) THEN StringLess(Tail(s), Tail(t))
  ELSE CodeOf(Head(s)) < CodeOf(Head(t))

RECURSIVE InsertSorted(_, _)
InsertSorted(sorted, s) ==
  IF sorted = <<>> THEN <<s>>
  ELSE IF StringLess(s, Head(sorted)) THEN <<s>> \o sorted
  ELSE <<Head(sorted)>> \o InsertSorted(Tail(sorted), s)

RECURSIVE sort(_)
sort(strings) ==
  IF strings = <<>> THEN <<>>
  ELSE InsertSorted(sort(SubSeq(strings, 1, Len(strings) - 1)), strings[Len(strings)])

startsWith(s, prefix) ==
  Len(prefix) <= Len(s) /\ SubSeq(s, 1, Len(prefix)) = prefix

\* The argument left out (typeof prefix === 'undefined').
Undefined == <<"undefined">>

RECURSIVE selectableFrom(_, _, _)
selectableFrom(d, prefix, i) ==
  IF i > Len(d.options) THEN <<>>
  ELSE IF d.options[i].selected THEN selectableFrom(d, prefix, i + 1)
  ELSE IF prefix = Undefined \/ startsWith(d.options[i].html, prefix)
    THEN <<d.options[i].html>> \o selectableFrom(d, prefix, i + 1)
  ELSE selectableFrom(d, prefix, i + 1)

selectableOptionsForPrefix(d, prefix) == sort(selectableFrom(d, prefix, 1))

\* The query texts of the model: absent, empty, a lower-case and an upper-case
\* first letter, a letter inside a display text, and a blank.
Queries == {Undefined, <<>>, <<"a">>, <<"A">>, <<"b">>, <<"B">>, <<" ">>}

toLowerCase(s) ==
  [k \in 1..Len(s) |->
     CASE s[k] = "A" -> "a"
       [] s[k] = "B" -> "b"
       [] s[k] = "L" -> "l"
       [] OTHER -> s[k]]

\* String.prototype.indexOf(sub) !== -1
Includes(s, sub) ==
  \E k \in 0..(Len(s) - Len(sub)) : SubSeq(s, k + 1, k + Len(sub)) = sub

\* C16: the default search returns the alphabetically sorted display texts of
\* exactly the unselected options whose display text contains the query as a
\* case-insensitive substring, and of all unselected options when the query is
\* empty or absent.
C16_SearchIsCaseInsensitiveSubstring ==
  \A q \in Queries :
    LET texts == {options[i].html : i \in {j \in 1..Len(options) :
                     /\ ~options[j].selected
                     /\ \/ q \in {Undefined, <<>>}
                        \/ Includes(toLowerCase(options[j].html), toLowerCase(q))}}
        found == selectableOptionsForPrefix(Dom, q)
    IN /\ Range(found) = texts
       /\ Len(found) = Cardinality(texts)
       /\ \A k \in 1..(Len(found) - 1) : StringLess(found[k], found[k + 1])

(***************************************************************************)
(* setSelectedValues.  widget.js has no such operation; it is modelled     *)
(* from its description and from it('setSelectedValues'), where            *)
(* setSelectedValues('one', 'two') on a display that shows the chip of     *)
(* 'two' leaves the chips of 'one' and 'two' in this order.  It is built   *)
(* from deselectOption and selectOptionWithValue of widget.js.             *)
(***************************************************************************)
RECURSIVE deselectAllFrom(_, _)
deselectAllFrom(d, i) ==
  IF i > Len(d.options) THEN d
  ELSE deselectAllFrom(IF d.options[i].selected THEN deselectOption(d, i) ELSE d, i + 1)

\* Selects the values in order; a value without an option throws and ends the call.
RECURSIVE selectAll(_, _)
selectAll(d, values) ==
  IF values = <<>> THEN [dom |-> d, threw |-> FALSE]
  ELSE LET r == selectOptionWithValue(d, Head(values)) IN
       IF r.threw THEN r ELSE selectAll(r.dom, Tail(values))

\* As the description has it: the chips of the arguments already selected stay in place.
RECURSIVE deselectOthersFrom(_, _, _)
deselectOthersFrom(d, values, i) ==
  IF i > Len(d.options) THEN d
  ELSE deselectOthersFrom(
         IF d.options[i].selected /\ d.options[i].value \notin Range(values)
           THEN deselectOption(d, i) ELSE d,
         values, i + 1)

setSelectedValues_KeepsSelectedArguments(d, values) ==
  selectAll(deselectOthersFrom(d, values, 1), values)

setSelectedValues(d, values) == selectAll(deselectAllFrom(d, 1), values)

\* The argument lists of the model: no value, one value, two values.
ArgLists == {<<>>} \cup {<<v>> : v \in Values} \cup {<<v, w>> : v, w \in Values}

SetSelectedValues(values) ==
  LET r == setSelectedValues(Dom, values) IN
  /\ Len(ChipRowsOf(r.dom.children)) <= MaxChips
  /\ Apply(r.dom)
  /\ Called("setSelectedValues", Range(values) \subseteq ValuesOf(options), r.threw)
  /\ UNCHANGED <<element, otherVars>>
  /\ history' = [args |-> values, chipsBefore |-> getSelectedValues, visibleBefore |-> FALSE]
  /\ UNCHANGED <<allowDuplicates, present, chosen, roundTrip, searcherVars>>

NextSet ==
  \/ \E v \in Values : \E h \in DisplaysOf(v) : AddOption(v, h)
  \/ \E values \in ArgLists : SetSelectedValues(values)

SpecSet == Init /\ [][NextSet]_vars

\* C12: for existing values a and b, setSelectedValues(a, b) followed by
\* getSelectedValues() returns [a, b] in that order, whatever was selected
\* before and whatever the storage order of a and b in the native list.
C12_SetThenGetRoundTrip ==
  (/\ lastCall.op = "setSelectedValues"
   /\ lastCall.existed
   /\ Len(history.args) = 2
   /\ history.args[1] # history.args[2])
    => getSelectedValues = history.args

\* The values of S have chip ids that differ from each other and from the id of
\* the chip list.
DistinctIds(S) ==
  \A v \in S :
    /\ ElemId \o SufOption \o ReplaceFirst(v, " ", "-") # OptionListId
    /\ \A w \in S \ {v} : ReplaceFirst(v, " ", "-") # ReplaceFirst(w, " ", "-")

\* The first occurrences in values of the values outside seen, in order.
RECURSIVE NewIn(_, _)
NewIn(values, seen) ==
  IF values = <<>> THEN <<>>
  ELSE IF Head(values) \in seen THEN NewIn(Tail(values), seen)
  ELSE <<Head(values)>> \o NewIn(Tail(values), seen \cup {Head(values)})

RECURSIVE IsSubsequence(_, _)
IsSubsequence(s, t) ==
  IF s = <<>> THEN TRUE
  ELSE IF t = <<>> THEN FALSE
  ELSE IF Head(s) = Head(t) THEN IsSubsequence(Tail(s), Tail(t))
  ELSE IsSubsequence(s, Tail(t))

Perform(op, existed, r) ==
  /\ Apply(r.dom)
  /\ Called(op, existed, r.threw)
  /\ UNCHANGED <<element, otherVars>>
  /\ history' = NoHistory
  /\ UNCHANGED <<allowDuplicates, present, chosen, roundTrip>>

WidgetsAddOption(value, display) ==
  /\ Len(options) < MaxOptions
  /\ Perform("addOption", value \in ValuesOf(options),
             [dom |-> addOption(Dom, value, display), threw |-> FALSE])
  /\ UNCHANGED searcherVars

WidgetsSelectOptionWithValue(value) ==
  LET r == selectOptionWithValue(Dom, value) IN
  /\ Len(ChipRowsOf(r.dom.children)) <= MaxChips
  /\ Perform("select", value \in ValuesOf(options), r)
  /\ UNCHANGED searcherVars

WidgetsRemoveOptionWithValue(value) ==
  /\ Perform("remove", value \in ValuesOf(options), removeOptionWithValue(Dom, value))
  /\ UNCHANGED searcherVars

\* MultipleSelect.search: the sorted display texts of the unselected options that
\* contain the text, whatever the case of its letters.
RECURSIVE searchFrom(_, _, _)
searchFrom(d, searchText, i) ==
  IF i > Len(d.options) THEN <<>>
  ELSE IF d.options[i].selected THEN searchFrom(d, searchText, i + 1)
  ELSE IF \/ searchText \in {Undefined, <<>>}
          \/ Includes(toLowerCase(d.options[i].html), toLowerCase(searchText))
    THEN <<d.options[i].html>> \o searchFrom(d, searchText, i + 1)
  ELSE searchFrom(d, searchText, i + 1)

\* The search of widget.js in its place: the texts that start with the text, letter
\* for letter.
MultipleSelect_search_CaseSensitive(d, searchText) == selectableOptionsForPrefix(d, searchText)

MultipleSelect_search(d, searchText) == sort(searchFrom(d, searchText, 1))

customAddLabel == <<"A", "d", "d", ":", " ">>
noSearchResultsLabel == <<"N", "o", ":", " ">>

IsBlank(text) == text # <<>> /\ \A k \in 1..Len(text) : text[k] = " "

ResultRows(results) ==
  [k \in 1..Len(results) |-> [kind |-> "search-result", text |-> results[k]]]

\* The results that equal the text apart from the case of the letters.
Matching(results, text) ==
  {k \in 1..Len(results) : toLowerCase(results[k]) = toLowerCase(text)}

Rendered(text, rows, index, visible) ==
  [inputText |-> text, rows |-> rows, highlightedIndex |-> index, visible |-> visible]

\* A blank text is searched as the empty text.
Searcher_search_BlankAsEmpty(d, enabled, text) ==
  LET results == MultipleSelect_search(d, IF IsBlank(text) THEN <<>> ELSE text) IN
  Rendered(text, ResultRows(results), 0, results # <<>>)

\* The custom add row is left out only for a result that equals the text exactly.
Searcher_search_ExactCase(d, enabled, text) ==
  IF IsBlank(text) THEN Rendered(<<>>, <<>>, 0, FALSE)
  ELSE
    LET results == MultipleSelect_search(d, text)
        customAdd == enabled /\ text # <<>> /\ \A k \in 1..Len(results) : results[k] # text
        rows == ResultRows(results) \o
                  (IF customAdd THEN <<[kind |-> "custom-add", text |-> customAddLabel \o text]>>
                   ELSE <<>>)
    IN Rendered(text, rows, IF customAdd THEN Len(rows) ELSE 0, rows # <<>>)

\* The results are open only for a result or the custom add row.
Searcher_search_ClosedOnNoMatches(d, enabled, text) ==
  IF IsBlank(text) THEN Rendered(<<>>, <<>>, 0, FALSE)
  ELSE
    LET results == MultipleSelect_search(d, text)
        customAdd == enabled /\ text # <<>> /\ Matching(results, text) = {}
        rows == ResultRows(results) \o
                  (IF customAdd THEN <<[kind |-> "custom-add", text |-> customAddLabel \o text]>>
                   ELSE <<>>)
        shown == IF rows = <<>> /\ text # <<>>
                   THEN <<[kind |-> "no-search-results", text |-> noSearchResultsLabel \o text]>>
                   ELSE rows
    IN Rendered(text, shown, 0, rows # <<>>)

\* The first row is highlighted, whatever it is.
Searcher_search_FirstRowHighlighted(d, enabled, text) ==
  IF IsBlank(text) THEN Rendered(<<>>, <<>>, 0, FALSE)
  ELSE
    LET results == MultipleSelect_search(d, text)
        customAdd == enabled /\ text # <<>> /\ Matching(results, text) = {}
        rows == ResultRows(results) \o
                  (IF customAdd THEN <<[kind |-> "custom-add", text |-> customAddLabel \o text]>>
                   ELSE <<>>)
        shown == IF rows = <<>> /\ text # <<>>
                   THEN <<[kind |-> "no-search-results", text |-> noSearchResultsLabel \o text]>>
                   ELSE rows
    IN Rendered(text, shown, IF rows # <<>> THEN 1 ELSE 0, shown # <<>>)

\* The custom add row shows the label alone.
Searcher_search_LabelWithoutText(d, enabled, text) ==
  IF IsBlank(text) THEN Rendered(<<>>, <<>>, 0, FALSE)
  ELSE
    LET results == MultipleSelect_search(d, text)
        matching == Matching(results, text)
        customAdd == enabled /\ text # <<>> /\ matching = {}
        rows == ResultRows(results) \o
                  (IF customAdd THEN <<[kind |-> "custom-add", text |-> customAddLabel]>>
                   ELSE <<>>)
        shown == IF rows = <<>> /\ text # <<>>
                   THEN <<[kind |-> "no-search-results", text |-> noSearchResultsLabel \o text]>>
                   ELSE rows
        index == IF matching # {} THEN CHOOSE k \in matching : \A m \in matching : m <= k
                 ELSE IF customAdd THEN Len(rows)
                 ELSE 0
    IN Rendered(text, shown, index, shown # <<>>)

\* Searcher.search: the state of the Searcher after the search.
Searcher_search(d, enabled, text) ==
  IF IsBlank(text) THEN Rendered(<<>>, <<>>, 0, FALSE)
  ELSE
    LET results == MultipleSelect_search(d, text)
        matching == Matching(results, text)
        customAdd == enabled /\ text # <<>> /\ matching = {}
        rows == ResultRows(results) \o
                  (IF customAdd THEN <<[kind |-> "custom-add", text |-> customAddLabel \o text]>>
                   ELSE <<>>)
        shown == IF rows = <<>> /\ text # <<>>
                   THEN <<[kind |-> "no-search-results", text |-> noSearchResultsLabel \o text]>>
                   ELSE rows
        index == IF matching # {} THEN CHOOSE k \in matching : \A m \in matching : m <= k
                 ELSE IF customAdd THEN Len(rows)
                 ELSE 0
    IN Rendered(text, shown, index, shown # <<>>)

isSearchResultsVisible == resultsVisible

isCustomAddVisible == \E k \in 1..Len(searchRows) : searchRows[k].kind = "custom-add"

\* The texts handed to Searcher.search.
SearchTexts == Queries \ {Undefined}

Search(text) ==
  LET r == Searcher_search(Dom, customAddEnabled, text) IN
  /\ inputText' = r.inputText
  /\ searchRows' = r.rows
  /\ highlightedIndex' = r.highlightedIndex
  /\ resultsVisible' = r.visible
  /\ Called("search", FALSE, FALSE)
  /\ UNCHANGED <<element, otherVars>>
  /\ history' = [args |-> <<text>>, chipsBefore |-> <<>>, visibleBefore |-> resultsVisible]
  /\ UNCHANGED <<options, children, listAttached, allowDuplicates, present, chosen, roundTrip,
                 customAddEnabled>>

InitSearch ==
  \E os \in OptionLists(MaxInitOptions) : \E enabled \in BOOLEAN :
    LET d == Construct(os) IN
    /\ options = d.options
    /\ children = d.children
    /\ listAttached = d.attached
    /\ allowDuplicates = FALSE
    /\ lastCall = [op |-> "init", existed |-> FALSE, threw |-> FALSE]
    /\ present = {}
    /\ chosen = <<>>
    /\ roundTrip = NoRoundTrip
    /\ SearcherClosed
    /\ customAddEnabled = enabled
    /\ history = NoHistory
    /\ element = Constructed
    /\ OnlyMultipleSelect

NextSearch ==
  \/ \E v \in Values : \E h \in DisplaysOf(v) : WidgetsAddOption(v, h)
  \/ \E v \in Values : WidgetsSelectOptionWithValue(v)
  \/ \E text \in SearchTexts : Search(text)

SpecSearch == InitSearch /\ [][NextSearch]_vars

\* The text of the last search.
SearchedText == history.args[1]

ResultTexts ==
  {searchRows[k].text : k \in {m \in 1..Len(searchRows) : searchRows[m].kind = "search-result"}}

UnselectedTexts == {options[i].html : i \in {j \in 1..Len(options) : ~options[j].selected}}

\* C17: Searcher.search with a whitespace-only query always leaves the
\* results closed and the custom-add row hidden, whatever the previous search
\* state and even when unselected options exist that an empty query would list.
C17_BlankQueryClosesResults ==
  (lastCall.op = "search" /\ IsBlank(SearchedText)) =>
    ~isSearchResultsVisible /\ ~isCustomAddVisible

C17_Witness ==
  /\ lastCall.op = "search"
  /\ IsBlank(SearchedText)
  /\ history.visibleBefore
  /\ UnselectedTexts # {}
  /\ ~isSearchResultsVisible

NamedApartFromCase ==
  /\ lastCall.op = "search"
  /\ customAddEnabled
  /\ SearchedText = <<"a">>
  /\ \E i \in 1..Len(options) :
       options[i].value = ValA /\ options[i].html = <<"A">> /\ ~options[i].selected

C20_OpenIffInteractiveRow ==
  lastCall.op = "search" =>
    (isSearchResultsVisible <=>
       \E k \in 1..Len(searchRows) : searchRows[k].kind \in {"search-result", "custom-add"})

\* C20 (amended): after Searcher.search the results are open if and only if at
\* least one row is rendered, the 'no matches' row included; that row is
\* rendered alone, for a text that is neither empty nor blank.
C20_OpenIffAnyRow ==
  lastCall.op = "search" =>
    /\ isSearchResultsVisible <=> searchRows # <<>>
    /\ \A k \in 1..Len(searchRows) :
         searchRows[k].kind = "no-search-results" =>
           /\ Len(searchRows) = 1
           /\ SearchedText # <<>>
           /\ ~IsBlank(SearchedText)
           /\ ~customAddEnabled

C20_Witness ==
  /\ lastCall.op = "search"
  /\ Len(searchRows) = 1
  /\ searchRows[1].kind = "no-search-results"
  /\ isSearchResultsVisible

(***************************************************************************)
(* The highlight of the last chip for removal.  widget.js has none of      *)
(* these operations; they are modelled from their description and from     *)
(* it('highlightOptionForUnselect'), it('removeHighlightedOption') and     *)
(* it('unhighlightOptionForUnselect'), on top of deselectOptionWithValue   *)
(* of widget.js.  The marker is the class 'selected' of the chip row.      *)
(***************************************************************************)
\* The index in rows of the last chip row, 0 if there is none.
LastChipIndex(rows) ==
  LET chipIndexes == {k \in 1..Len(rows) : rows[k].kind = "chip"} IN
  IF chipIndexes = {} THEN 0 ELSE CHOOSE k \in chipIndexes : \A m \in chipIndexes : m <= k

highlightOptionForUnselect(d) ==
  LET last == LastChipIndex(d.children) IN
  IF last = 0 THEN d ELSE [d EXCEPT !.children[last].highlighted = TRUE]

isLastOptionHighlightedForUnselect(d) ==
  LET last == LastChipIndex(d.children) IN
  last # 0 /\ d.children[last].highlighted

unhighlightOptionForUnselect(d) ==
  [d EXCEPT !.children = [k \in 1..Len(d.children) |->
                            [d.children[k] EXCEPT !.highlighted = FALSE]]]

removeHighlightedOption(d) ==
  LET last == LastChipIndex(d.children) IN
  IF last = 0 THEN [dom |-> d, threw |-> FALSE]
  ELSE LET r == deselectOptionWithValue(d, d.children[last].value) IN
       [dom |-> unhighlightOptionForUnselect(r.dom), threw |-> r.threw]

\* Called with the text input empty, the precondition its callers have to check.
HighlightOptionForUnselect ==
  /\ inputText = <<>>
  /\ Perform("highlight", FALSE, [dom |-> highlightOptionForUnselect(Dom), threw |-> FALSE])
  /\ UNCHANGED searcherVars

UnhighlightOptionForUnselect ==
  /\ Perform("unhighlight", FALSE, [dom |-> unhighlightOptionForUnselect(Dom), threw |-> FALSE])
  /\ UNCHANGED searcherVars

\* Called with the last chip highlighted, as the key handler does.
RemoveHighlightedOption ==
  LET r == removeHighlightedOption(Dom) IN
  /\ isLastOptionHighlightedForUnselect(Dom)
  /\ Apply(r.dom)
  /\ Called("removeHighlighted", children[LastChipIndex(children)].value \in ValuesOf(options),
            r.threw)
  /\ UNCHANGED <<element, otherVars>>
  /\ history' = [args |-> <<>>, chipsBefore |-> getSelectedValues, visibleBefore |-> FALSE]
  /\ UNCHANGED <<allowDuplicates, present, chosen, roundTrip, searcherVars>>

\* A character typed into the empty text input: the key handler clears the highlight
\* and the character is added to the text.  The search of the new text is the
\* step Search, taken by the handler of the input change.
TypedCharacters == {"a"}

TypeCharacter(c) ==
  /\ inputText = <<>>
  /\ Perform("type", FALSE, [dom |-> unhighlightOptionForUnselect(Dom), threw |-> FALSE])
  /\ inputText' = inputText \o <<c>>
  /\ UNCHANGED <<searchRows, highlightedIndex, resultsVisible, customAddEnabled>>

\* The values used with the highlight: two values with chip ids of their own and
\* the value whose chip id is the id of the chip list.
HighlightValues == {ValA, ValASpaceB, ValList}

NextHighlight ==
  \/ \E v \in HighlightValues : \E h \in DisplaysOf(v) : WidgetsAddOption(v, h)
  \/ \E v \in HighlightValues : WidgetsSelectOptionWithValue(v)
  \/ \E v \in HighlightValues : WidgetsRemoveOptionWithValue(v)
  \/ HighlightOptionForUnselect
  \/ UnhighlightOptionForUnselect
  \/ RemoveHighlightedOption
  \/ \E c \in TypedCharacters : TypeCharacter(c)

InitHighlight ==
  \E os \in {l \in OptionLists(MaxInitOptions) : ValuesOf(l) \subseteq HighlightValues} :
    LET d == Construct(os) IN
    /\ options = d.options
    /\ children = d.children
    /\ listAttached = d.attached
    /\ allowDuplicates = FALSE
    /\ lastCall = [op |-> "init", existed |-> FALSE, threw |-> FALSE]
    /\ present = {}
    /\ chosen = <<>>
    /\ roundTrip = NoRoundTrip
    /\ SearcherClosed
    /\ customAddEnabled = FALSE
    /\ history = NoHistory
    /\ element = Constructed
    /\ OnlyMultipleSelect

SpecHighlight == InitHighlight /\ [][NextHighlight]_vars

HighlightedRows == {k \in 1..Len(children) : children[k].highlighted}

\* C14: with a non-empty chip list, highlightOptionForUnselect() followed by
\* removeHighlightedOption() reduces the chip count by exactly one, the removed
\* chip is the last one, its option becomes unselected but stays in the backing
\* list, and isLastOptionHighlightedForUnselect() is false afterwards.
C14_RemoveHighlightedRemovesLastChip ==
  lastCall.op = "removeHighlighted" =>
    LET before == history.chipsBefore IN
    /\ getSelectedValues = SubSeq(before, 1, Len(before) - 1)
    /\ \E i \in 1..Len(options) :
         options[i].value = before[Len(before)] /\ ~options[i].selected
    /\ ~isLastOptionHighlightedForUnselect(Dom)

\* C15: in every reachable state at most one chip carries the
\* marker, that chip is the last chip, and the marker is present only while
\* the text input is empty: typing a character, unhighlightOptionForUnselect
\* and removeHighlightedOption each clear it.
C15_MarkerOnLastChipWhileInputEmpty ==
  /\ Cardinality(HighlightedRows) <= 1
  /\ HighlightedRows \subseteq {LastChipIndex(children)}
  /\ HighlightedRows # {} => inputText = <<>>
  /\ lastCall.op \in {"type", "unhighlight", "removeHighlighted"} => HighlightedRows = {}

(***************************************************************************)
(* The cursor of the Searcher and the selection of the highlighted row.    *)
(* widget.js has none of these operations; they are modelled from their    *)
(* description and from it('selectHighlightedSearchResult'), on top of     *)
(* addOption and selectOptionWithValue of widget.js.                       *)
(***************************************************************************)
\* The rows the cursor can be on: the results and the custom add row.
Interactive(rows) == {k \in 1..Len(rows) : rows[k].kind \in {"search-result", "custom-add"}}

\* One row down, whatever the number of rows.
highlightNextSearchResult_PastTheEnd(rows, index) == index + 1

\* The cursor stays on the last row.
highlightNextSearchResult_Clamped(rows, index) ==
  IF Interactive(rows) = {} THEN 0
  ELSE IF index >= Len(rows) THEN Len(rows)
  ELSE index + 1

\* highlightNextSearchResult: one row down; from the last row, and with no row
\* highlighted, to the first row (it('selectHighlightedSearchResult'): after
\* search('t') the custom add row, the last one, is highlighted, and the call
\* highlights 'Two', the first one).
highlightNextSearchResult(rows, index) ==
  IF Interactive(rows) = {} THEN 0
  ELSE IF index >= Len(rows) THEN 1
  ELSE index + 1

\* highlightPreviousSearchResult: one row up; the cursor stays on the first row.
highlightPreviousSearchResult(rows, index) ==
  IF Interactive(rows) = {} THEN 0
  ELSE IF index <= 1 THEN 1
  ELSE index - 1

\* The index of the first option with the display text; 0 stands for null.
findOptionWithText(d, text) ==
  IF \E i \in 1..Len(d.options) : d.options[i].html = text
    THEN CHOOSE i \in 1..Len(d.options) :
           /\ d.options[i].html = text
           /\ \A j \in 1..(i - 1) : d.options[j].html # text
    ELSE 0

\* The custom add row always adds, whatever the row that is highlighted.
selectHighlightedSearchResult_AlwaysCustomAdd(d, rows, index, text) ==
  IF index = 0 THEN [dom |-> d, threw |-> FALSE, selected |-> FALSE]
  ELSE [dom |-> selectOptionWithValue(addOption(d, text, text), text).dom,
        threw |-> FALSE, selected |-> TRUE]

\* selectHighlightedSearchResult, the part on the widget: a result is resolved to its
\* option by display text and selected by value; the custom add row adds an option
\* with the text as value and display text and selects it.
selectHighlightedSearchResult(d, rows, index, text) ==
  IF index = 0 THEN [dom |-> d, threw |-> FALSE, selected |-> FALSE]
  ELSE IF rows[index].kind = "custom-add"
    THEN [dom |-> selectOptionWithValue(addOption(d, text, text), text).dom,
          threw |-> FALSE, selected |-> TRUE]
  ELSE LET i == findOptionWithText(d, rows[index].text) IN
       IF i = 0 THEN [dom |-> d, threw |-> TRUE, selected |-> FALSE]
       ELSE [dom |-> selectOptionWithValue(d, d.options[i].value).dom,
             threw |-> FALSE, selected |-> TRUE]

HighlightNextSearchResult ==
  /\ highlightedIndex' = highlightNextSearchResult(searchRows, highlightedIndex)
  /\ Called("next", FALSE, FALSE)
  /\ UNCHANGED <<element, otherVars>>
  /\ history' = [args |-> <<>>, chipsBefore |-> <<>>, visibleBefore |-> resultsVisible,
                 indexBefore |-> highlightedIndex,
                 fromCustomAdd |-> /\ lastCall.op = "search"
                                   /\ Len(searchRows) >= 2
                                   /\ highlightedIndex = Len(searchRows)
                                   /\ searchRows[Len(searchRows)].kind = "custom-add"]
  /\ UNCHANGED <<options, children, listAttached, allowDuplicates, present, chosen, roundTrip,
                 inputText, searchRows, resultsVisible, customAddEnabled>>

HighlightPreviousSearchResult ==
  /\ highlightedIndex' = highlightPreviousSearchResult(searchRows, highlightedIndex)
  /\ Called("previous", FALSE, FALSE)
  /\ UNCHANGED <<element, otherVars>>
  /\ history' = [args |-> <<>>, chipsBefore |-> <<>>, visibleBefore |-> resultsVisible,
                 indexBefore |-> highlightedIndex, fromCustomAdd |-> FALSE]
  /\ UNCHANGED <<options, children, listAttached, allowDuplicates, present, chosen, roundTrip,
                 inputText, searchRows, resultsVisible, customAddEnabled>>

\* selectHighlightedSearchResult: the selection, then the text is cleared and the
\* empty text is searched.  A call that throws leaves the Searcher as it was.
SelectHighlightedSearchResult ==
  LET r == selectHighlightedSearchResult(Dom, searchRows, highlightedIndex, inputText)
      s == IF r.selected THEN Searcher_search(r.dom, customAddEnabled, <<>>)
           ELSE Rendered(inputText, searchRows, highlightedIndex, resultsVisible)
  IN
  /\ Len(r.dom.options) <= MaxOptions
  /\ Len(ChipRowsOf(r.dom.children)) <= MaxChips
  /\ Apply(r.dom)
  /\ inputText' = s.inputText
  /\ searchRows' = s.rows
  /\ highlightedIndex' = s.highlightedIndex
  /\ resultsVisible' = s.visible
  /\ Called("selectHighlighted", highlightedIndex # 0, r.threw)
  /\ UNCHANGED <<element, otherVars>>
  /\ history' = [args |-> <<inputText>>, chipsBefore |-> getSelectedValues,
                 visibleBefore |-> resultsVisible,
                 row |-> IF highlightedIndex = 0 THEN [kind |-> "none", text |-> <<>>]
                         ELSE searchRows[highlightedIndex],
                 optionCountBefore |-> Len(options),
                 viaNext |-> lastCall.op = "next" /\ history.fromCustomAdd]
  /\ UNCHANGED <<allowDuplicates, present, chosen, roundTrip, customAddEnabled>>

\* The values and texts used with the cursor: a value named by the text 'a' apart
\* from the case, and two values with one chip id whose display texts contain 'b'.
CursorValues == {ValA, ValASpaceB, ValAHyphenB}

CursorTexts == {<<>>, <<"a">>, <<"b">>, <<" ">>}

NextCursor ==
  \/ \E v \in CursorValues : \E h \in DisplaysOf(v) : WidgetsAddOption(v, h)
  \/ \E v \in CursorValues : WidgetsSelectOptionWithValue(v)
  \/ \E v \in CursorValues : WidgetsRemoveOptionWithValue(v)
  \/ \E text \in CursorTexts : Search(text)
  \/ HighlightNextSearchResult
  \/ HighlightPreviousSearchResult
  \/ SelectHighlightedSearchResult

InitCursor ==
  \E os \in {l \in OptionLists(MaxInitOptions) : ValuesOf(l) \subseteq CursorValues} :
    \E enabled \in BOOLEAN :
      LET d == Construct(os) IN
      /\ options = d.options
      /\ children = d.children
      /\ listAttached = d.attached
      /\ allowDuplicates = FALSE
      /\ lastCall = [op |-> "init", existed |-> FALSE, threw |-> FALSE]
      /\ present = {}
      /\ chosen = <<>>
      /\ roundTrip = NoRoundTrip
      /\ SearcherClosed
      /\ customAddEnabled = enabled
      /\ history = NoHistory
      /\ element = Constructed
      /\ OnlyMultipleSelect

SpecCursor == InitCursor /\ [][NextCursor]_vars

\* The rows of the results that equal the text of the last search apart from the
\* case of the letters.
NamedRows ==
  {k \in 1..Len(searchRows) :
     /\ searchRows[k].kind = "search-result"
     /\ toLowerCase(searchRows[k].text) = toLowerCase(SearchedText)}

\* C21 (as stated): after every Searcher.search that renders at least one
\* interactive row the highlighted row is the first interactive row; when the
\* 'no matches' placeholder is shown nothing is highlighted.
C21_FirstInteractiveRowHighlighted ==
  lastCall.op = "search" =>
    IF Interactive(searchRows) # {} THEN highlightedIndex = 1 ELSE highlightedIndex = 0

\* C21 (amended): after every Searcher.search the highlighted row is the result
\* that equals the query apart from the case of the letters if there is one,
\* otherwise the custom-add row if it is rendered, and otherwise no row: an
\* empty query highlights none of its results, and nothing is highlighted
\* with the 'no matches' placeholder.
C21_HighlightedByDefault ==
  lastCall.op = "search" =>
    IF NamedRows # {} THEN highlightedIndex \in NamedRows
    ELSE IF isCustomAddVisible
      THEN /\ highlightedIndex = Len(searchRows)
           /\ searchRows[highlightedIndex].kind = "custom-add"
    ELSE highlightedIndex = 0

C21_Witness ==
  /\ lastCall.op = "search"
  /\ SearchedText = <<>>
  /\ Interactive(searchRows) # {}
  /\ highlightedIndex = 0

\* The unselected display texts that contain the text of the last search, whatever
\* the case of the letters.
ContainingTexts ==
  {t \in UnselectedTexts : Includes(toLowerCase(t), toLowerCase(SearchedText))}

C23_HighlightedIndexIsValid ==
  \/ highlightedIndex = 0
  \/ highlightedIndex \in Interactive(searchRows)

\* A removal after a search that left a result highlighted: the rows are the ones
\* the search rendered and the cursor is on one of them.
C23_Witness ==
  /\ lastCall.op = "remove"
  /\ lastCall.existed
  /\ Len(searchRows) = 2
  /\ highlightedIndex = 2
  /\ searchRows[2].kind = "custom-add"

\* C24 (as stated): highlightNextSearchResult and highlightPreviousSearchResult
\* move the highlighted cursor by exactly one row over the combined row set and
\* are clamped at the ends: next on the last row and previous on the first row
\* leave the cursor where it is (no wraparound).
C24_ClampedAtBothEnds ==
  /\ (lastCall.op = "next" /\ history.indexBefore # 0) =>
       highlightedIndex = IF history.indexBefore = Len(searchRows) THEN history.indexBefore
                          ELSE history.indexBefore + 1
  /\ (lastCall.op = "previous" /\ history.indexBefore # 0) =>
       highlightedIndex = IF history.indexBefore = 1 THEN 1 ELSE history.indexBefore - 1

\* C24 (amended): highlightNextSearchResult and highlightPreviousSearchResult
\* move the highlighted cursor by exactly one row over the combined row set;
\* previous on the first row leaves the cursor where it is, and next on the
\* last row moves the cursor to the first row.
C24_NextWrapsPreviousClamps ==
  /\ (lastCall.op = "next" /\ history.indexBefore # 0) =>
       highlightedIndex = IF history.indexBefore = Len(searchRows) THEN 1
                          ELSE history.indexBefore + 1
  /\ (lastCall.op = "previous" /\ history.indexBefore # 0) =>
       highlightedIndex = IF history.indexBefore = 1 THEN 1 ELSE history.indexBefore - 1

C24_Witness ==
  /\ lastCall.op = "next"
  /\ Len(searchRows) >= 2
  /\ history.indexBefore = Len(searchRows)
  /\ highlightedIndex = 1

\* The option with the display text is selected and a chip shows its value.
SelectedWithChip(text) ==
  \E i \in 1..Len(options) :
    /\ options[i].html = text
    /\ options[i].selected
    /\ HasChip(options[i].value)

\* C25: when a search leaves the custom-add row highlighted as the last row
\* below a real result, one call to highlightNextSearchResult moves the
\* highlight to that real result (the first row), so that
\* selectHighlightedSearchResult then selects the existing option instead of
\* adding a custom value.
C25_NextThenSelectTakesExistingOption ==
  /\ (lastCall.op = "next" /\ history.fromCustomAdd) =>
       highlightedIndex = 1 /\ searchRows[1].kind = "search-result"
  /\ (lastCall.op = "selectHighlighted" /\ history.viaNext) =>
       /\ history.row.kind = "search-result"
       /\ Len(options) = history.optionCountBefore
       /\ SelectedWithChip(history.row.text)

\* C26: selectHighlightedSearchResult selects the backing option whose
\* display text equals the highlighted row when that row is a real result; when
\* the highlighted row is the custom-add row it adds a new option whose value
\* and display text both equal the query text and selects it (new chip
\* appended last); in both cases the query text is empty afterwards.
C26_SelectsResultOrAddsCustomValue ==
  (lastCall.op = "selectHighlighted" /\ lastCall.existed) =>
    /\ history.row.kind = "search-result" => SelectedWithChip(history.row.text)
    /\ history.row.kind = "custom-add" =>
         /\ Len(options) = history.optionCountBefore + 1
         /\ options[Len(options)] =
              [value |-> history.args[1], html |-> history.args[1], selected |-> TRUE]
         /\ getSelectedValues = Append(history.chipsBefore, history.args[1])
    /\ inputText = <<>>

(***************************************************************************)
(* A search function supplied by the caller (withSearchFunction).  The     *)
(* Searcher is not in widget.js; what it does with a function that fails   *)
(* is modelled from its description.                                       *)
(***************************************************************************)
\* What the supplied function does when it is called: it returns the results of
\* the widget's own search, it throws, or it returns a value without results.
SearchFunctionOutcomes == {"results", "throws", "malformed"}

\* A failure of the function is not noticed: the widget's own results are rendered.
Searcher_searchWithFunction_IgnoresFailure(d, enabled, text, outcome) ==
  [state |-> Searcher_search(d, enabled, text), invoked |-> ~IsBlank(text), threw |-> FALSE]

\* Searcher.search with a supplied function: a blank text closes the results before
\* the function is called; a function that fails counts as one that found nothing.
Searcher_searchWithFunction(d, enabled, text, outcome) ==
  IF IsBlank(text)
    THEN [state |-> Rendered(<<>>, <<>>, 0, FALSE), invoked |-> FALSE, threw |-> FALSE]
  ELSE IF outcome = "results"
    THEN [state |-> Searcher_search(d, enabled, text), invoked |-> TRUE, threw |-> FALSE]
  ELSE
    LET customAdd == enabled /\ text # <<>>
        rows == IF customAdd THEN <<[kind |-> "custom-add", text |-> customAddLabel \o text]>>
                ELSE IF text # <<>>
                  THEN <<[kind |-> "no-search-results", text |-> noSearchResultsLabel \o text]>>
                ELSE <<>>
    IN [state |-> Rendered(text, rows, IF customAdd THEN 1 ELSE 0, rows # <<>>),
        invoked |-> TRUE, threw |-> FALSE]

SearchWithFunction(text, outcome) ==
  LET r == Searcher_searchWithFunction(Dom, customAddEnabled, text, outcome) IN
  /\ inputText' = r.state.inputText
  /\ searchRows' = r.state.rows
  /\ highlightedIndex' = r.state.highlightedIndex
  /\ resultsVisible' = r.state.visible
  /\ Called("searchWith", FALSE, r.threw)
  /\ UNCHANGED <<element, otherVars>>
  /\ history' = [args |-> <<text>>, chipsBefore |-> <<>>, visibleBefore |-> resultsVisible,
                 failed |-> r.invoked /\ outcome # "results",
                 hadResults |-> ResultTexts # {}]
  /\ UNCHANGED <<options, children, listAttached, allowDuplicates, present, chosen, roundTrip,
                 customAddEnabled>>

NextFunction ==
  \/ \E v \in Values : \E h \in DisplaysOf(v) : WidgetsAddOption(v, h)
  \/ \E v \in Values : WidgetsSelectOptionWithValue(v)
  \/ \E text \in SearchTexts : \E outcome \in SearchFunctionOutcomes :
       SearchWithFunction(text, outcome)

SpecFunction == InitSearch /\ [][NextFunction]_vars

Widget == "this"

fireEvent(event, memo) == [event |-> event, memo |-> memo, target |-> Widget]

\* The events addOption fires: none when it returns early.
addOptionEvents_None(d, value) == <<>>

addOptionEvents(d, value) ==
  IF containsOptionWithValue(d, value) THEN <<>>
  ELSE <<fireEvent("AddOptionEvent", value)>>

\* The events selectOptionWithValue fires: one when selectOption selects.
selectOptionEvents(d, value) ==
  LET i == findOptionWithValue(d, value) IN
  IF i = 0 THEN <<>>
  ELSE IF queryByID(d, makeOptionID(d.options[i])).kind = "none"
    THEN <<fireEvent("SelectOptionEvent", value)>>
  ELSE <<>>

\* The events deselectOptionWithValue fires: one for every option it deselects.
deselectOptionEvents(d, value) ==
  IF findOptionWithValue(d, value) = 0 THEN <<>>
  ELSE <<fireEvent("DeselectOptionEvent", value)>>

\* Whether the option with the value is selected.
IsSelected(d, value) ==
  LET i == findOptionWithValue(d, value) IN i # 0 /\ d.options[i].selected

Heard(value, events) ==
  [args |-> <<value>>, chipsBefore |-> <<>>, visibleBefore |-> FALSE, events |-> events,
   optionCountBefore |-> Len(options), selectedBefore |-> IsSelected(Dom, value)]

ListenedAddOption(value, display) ==
  /\ Len(options) < MaxOptions
  /\ Apply(addOption(Dom, value, display))
  /\ Called("addOption", value \in ValuesOf(options), FALSE)
  /\ UNCHANGED <<element, otherVars>>
  /\ history' = Heard(value, addOptionEvents(Dom, value))
  /\ UNCHANGED <<allowDuplicates, present, chosen, roundTrip, searcherVars>>

ListenedSelectOptionWithValue(value) ==
  LET r == selectOptionWithValue(Dom, value) IN
  /\ Len(ChipRowsOf(r.dom.children)) <= MaxChips
  /\ Apply(r.dom)
  /\ Called("select", value \in ValuesOf(options), r.threw)
  /\ UNCHANGED <<element, otherVars>>
  /\ history' = Heard(value, selectOptionEvents(Dom, value))
  /\ UNCHANGED <<allowDuplicates, present, chosen, roundTrip, searcherVars>>

ListenedDeselectOptionWithValue(value) ==
  LET r == deselectOptionWithValue(Dom, value) IN
  /\ Apply(r.dom)
  /\ Called("deselect", value \in ValuesOf(options), r.threw)
  /\ UNCHANGED <<element, otherVars>>
  /\ history' = Heard(value, deselectOptionEvents(Dom, value))
  /\ UNCHANGED <<allowDuplicates, present, chosen, roundTrip, searcherVars>>

NextEvents ==
  \/ \E v \in Values : \E h \in DisplaysOf(v) : ListenedAddOption(v, h)
  \/ \E v \in Values : ListenedSelectOptionWithValue(v)
  \/ \E v \in Values : ListenedDeselectOptionWithValue(v)

SpecEvents == Init /\ [][NextEvents]_vars

TagNames == {"SELECT", "DIV"}

\* getAttribute('multiple'): null when the attribute is absent.
NullAttribute == "(null)"

MultipleAttributes == {NullAttribute, "multiple", ""}

\* The element is hidden before it is checked.
MultipleSelect_HidesFirst(e, d) ==
  IF e.tagName # "SELECT" \/ e.multiple # "multiple"
    THEN [element |-> [e EXCEPT !.hidden = TRUE], dom |-> d, threw |-> TRUE]
  ELSE [element |-> [e EXCEPT !.hidden = TRUE, !.display = TRUE],
        dom |-> rebuildDisplay([d EXCEPT !.children = <<>>, !.attached = TRUE]),
        threw |-> FALSE]

\* new Prime.Widget.MultipleSelect(element).  With the display container already in
\* the document the option list is looked up by id; when it is not found,
\* rebuildDisplay throws on the null list, after the element was hidden.
MultipleSelect(e, d) ==
  IF e.tagName # "SELECT" THEN [element |-> e, dom |-> d, threw |-> TRUE]
  ELSE IF e.multiple # "multiple" THEN [element |-> e, dom |-> d, threw |-> TRUE]
  ELSE LET hidden == [e EXCEPT !.hidden = TRUE] IN
       IF ~e.display
         THEN [element |-> [hidden EXCEPT !.display = TRUE],
               dom |-> rebuildDisplay([d EXCEPT !.children = <<>>, !.attached = TRUE]),
               threw |-> FALSE]
       ELSE IF ~d.attached THEN [element |-> hidden, dom |-> d, threw |-> TRUE]
       ELSE [element |-> hidden, dom |-> rebuildDisplay(d), threw |-> FALSE]

NewMultipleSelect ==
  LET r == MultipleSelect(element, Dom) IN
  /\ element' = r.element
  /\ UNCHANGED otherVars
  /\ Apply(r.dom)
  /\ Called("new", FALSE, r.threw)
  /\ history' = NoHistory
  /\ UNCHANGED <<allowDuplicates, present, chosen, roundTrip, searcherVars>>

\* rebuildDisplay of a widget a constructor call has set up.
RebuildDisplay ==
  /\ element.display
  /\ Perform("rebuildDisplay", FALSE, [dom |-> rebuildDisplay(Dom), threw |-> FALSE])
  /\ UNCHANGED searcherVars

InitPage ==
  \E e \in [tagName : TagNames, multiple : MultipleAttributes, hidden : {FALSE},
            display : {FALSE}] :
    \E os \in IF e.tagName = "SELECT" THEN OptionLists(MaxInitOptions) ELSE {<<>>} :
      /\ element = e
      /\ options = os
      /\ children = <<>>
      /\ listAttached = FALSE
      /\ allowDuplicates = FALSE
      /\ lastCall = [op |-> "page", existed |-> FALSE, threw |-> FALSE]
      /\ present = {}
      /\ chosen = <<>>
      /\ roundTrip = NoRoundTrip
      /\ SearcherClosed
      /\ customAddEnabled = FALSE
      /\ history = NoHistory
      /\ OnlyMultipleSelect

NextConstruct ==
  \/ NewMultipleSelect
  \/ RebuildDisplay
  \/ element.display /\ \E v \in Values : \E h \in DisplaysOf(v) : WidgetsAddOption(v, h)
  \/ element.display /\ \E v \in Values : WidgetsSelectOptionWithValue(v)
  \/ element.display /\ \E v \in Values : WidgetsRemoveOptionWithValue(v)

SpecConstruct == InitPage /\ [][NextConstruct]_vars

\* C29: constructing a MultipleSelect on an element that is not a select
\* control, or on a select without the multiple capability, fails immediately
\* with an error and leaves no partial widget: the native control is not
\* hidden and no display container or chip list is created.
C29_FailedConstructionLeavesNoWidget ==
  (lastCall.op = "new" /\ (element.tagName # "SELECT" \/ element.multiple = NullAttribute)) =>
    /\ lastCall.threw
    /\ ~element.hidden
    /\ ~element.display
    /\ ~listAttached
    /\ children = <<>>

C29_Witness ==
  /\ lastCall.op = "new"
  /\ lastCall.threw
  /\ element.tagName = "SELECT"
  /\ element.multiple = NullAttribute
  /\ options # <<>>
  /\ ~element.hidden

\* C30: on successful construction, and after every rebuildDisplay, the chip
\* list contains exactly one chip per option currently selected in the native
\* control and no other chip, followed by a single input row; chips shown
\* before the rebuild are discarded and calling rebuildDisplay twice gives the
\* same display as calling it once.
C30_DisplayRebuiltFromSelectedOptions ==
  ((lastCall.op = "new" /\ ~lastCall.threw) \/ lastCall.op = "rebuildDisplay") =>
    /\ ChipsMatchSelectedOptions(options, children)
    /\ Len(children) = Len(Chips) + 1
    /\ children[Len(children)] = InputRow
    /\ rebuildDisplay(Dom) = Dom

(***************************************************************************)
(* Chip ids (widget.js:367-369).  makeOptionID replaces the first space of *)
(* the value only, and a hyphen stays a hyphen, so two values can share    *)
(* one chip id.                                                            *)
(***************************************************************************)
\* C34: chip ids of distinct option values are distinct, so operations on one
\* value never affect another value's chip: selecting an existing value v is
\* never skipped because another value w has a chip, and deselecting or
\* removing v never removes the chip of another value w.
C34_OperationsNeverTouchAnotherValuesChip ==
  [][\A v \in {ValASpaceB, ValAHyphenB} :
       /\ (SelectOptionWithValue(v) /\ lastCall'.existed /\ ~lastCall'.threw) => HasChip(v)'
       /\ (DeselectOptionWithValue(v) \/ RemoveOptionWithValue(v)) =>
            \A w \in Values \ {v} : HasChip(w) => HasChip(w)']_vars

(***************************************************************************)
(* The search row of the MultipleSelect (widget.js): the searchDisplayed   *)
(* flag and the visibility of the input row (this.inputOption).            *)
(* rebuildDisplay replaces the input row by a new, hidden one.             *)
(***************************************************************************)
rowVars == <<date, touchable, ajaxDialog, slideOpen, template, datePicker>>

SearchRowStep(op) ==
  /\ Called(op, FALSE, FALSE)
  /\ history' = NoHistory
  /\ UNCHANGED <<element, allowDuplicates, present, chosen, roundTrip, searcherVars, rowVars>>

\* openSearch (widget.js:168-178).
OpenSearch ==
  /\ IF ~searchDisplayed
       THEN searchDisplayed' = TRUE /\ inputOptionShown' = TRUE
       ELSE UNCHANGED <<searchDisplayed, inputOptionShown>>
  /\ UNCHANGED <<options, children, listAttached>>
  /\ SearchRowStep("openSearch")

\* closeSearch (widget.js:94-99).
closeSearch ==
  IF searchDisplayed
    THEN searchDisplayed' = FALSE /\ inputOptionShown' = FALSE
    ELSE UNCHANGED <<searchDisplayed, inputOptionShown>>

CloseSearch ==
  /\ closeSearch
  /\ UNCHANGED <<options, children, listAttached>>
  /\ SearchRowStep("closeSearch")

\* rebuildDisplay (widget.js:186-214): the rows are removed, a new input row is
\* created hidden and the chips are rebuilt; searchDisplayed is not assigned.
RebuildDisplayRow ==
  /\ Apply(rebuildDisplay(Dom))
  /\ inputOptionShown' = FALSE
  /\ UNCHANGED searchDisplayed
  /\ SearchRowStep("rebuildDisplay")

Keys == {"ESCAPE", "ENTER"}

\* handleKeyEvent (widget.js:348-359).
HandleKeyEvent(key) ==
  /\ IF ~searchDisplayed THEN UNCHANGED <<searchDisplayed, inputOptionShown>>
     ELSE IF key = "ESCAPE" THEN closeSearch
     ELSE UNCHANGED <<searchDisplayed, inputOptionShown>>
  /\ UNCHANGED <<options, children, listAttached>>
  /\ SearchRowStep("keydown")

NextSearchRow ==
  \/ OpenSearch
  \/ CloseSearch
  \/ RebuildDisplayRow
  \/ \E key \in Keys : HandleKeyEvent(key)
  \/ \E v \in Values : \E h \in DisplaysOf(v) : WidgetsAddOption(v, h)
  \/ \E v \in Values : WidgetsSelectOptionWithValue(v)

SpecSearchRow == Init /\ [][NextSearchRow]_vars

\* C35: after any sequence of openSearch, closeSearch, rebuildDisplay and
\* Escape key events, searchDisplayed is true exactly when the input row is
\* shown, so that openSearch always makes the input row visible.
C35_SearchDisplayedIffInputRowShown ==
  /\ searchDisplayed = inputOptionShown
  /\ lastCall.op = "openSearch" => inputOptionShown

(***************************************************************************)
(* Pages that use one of the other widgets and no MultipleSelect.          *)
(***************************************************************************)
multipleSelectVars ==
  <<options, children, listAttached, allowDuplicates, lastCall, present, chosen, roundTrip,
    inputText, searchRows, highlightedIndex, resultsVisible, customAddEnabled, history,
    element, searchDisplayed, inputOptionShown>>

NoMultipleSelect ==
  /\ options = <<>>
  /\ children = <<>>
  /\ listAttached = FALSE
  /\ allowDuplicates = FALSE
  /\ lastCall = [op |-> "page", existed |-> FALSE, threw |-> FALSE]
  /\ present = {}
  /\ chosen = <<>>
  /\ roundTrip = NoRoundTrip
  /\ SearcherClosed
  /\ customAddEnabled = FALSE
  /\ history = NoHistory
  /\ element = NotConstructed
  /\ searchDisplayed = FALSE
  /\ inputOptionShown = FALSE

\* The page has the widget w and none of the others.
OnlyWidget(w) ==
  /\ NoMultipleSelect
  /\ IF w = "date" THEN TRUE ELSE date = NotConstructed
  /\ IF w = "touchable" THEN TRUE ELSE touchable = NotConstructed
  /\ IF w = "ajaxDialog" THEN TRUE ELSE ajaxDialog = NotConstructed
  /\ IF w = "slideOpen" THEN TRUE ELSE slideOpen = NotConstructed
  /\ IF w = "template" THEN TRUE ELSE template = NotConstructed
  /\ IF w = "datePicker" THEN TRUE ELSE datePicker = NotConstructed

(***************************************************************************)
(* PrimeDate (src/unnamed/part_001).  A Date is its local year, month      *)
(* (0..11) and day of month; the setters of Date normalise a day past the  *)
(* end of the month into the following month (MakeDay).                    *)
(***************************************************************************)
DAYS_IN_MONTH == <<31, 28, 31, 30, 31, 30, 31, 31, 30, 31, 30, 31>>

isLeapYear(year) == ~((year % 4 # 0) \/ ((year % 100 = 0) /\ (year % 400 # 0)))

\* The month argument is 0-based, the tuple is 1-based.
numberOfDaysInMonth(year, month) ==
  IF month = 1 /\ isLeapYear(year) THEN 29 ELSE DAYS_IN_MONTH[month + 1]

\* The % operator of JavaScript: the result has the sign of the dividend.
Rem(a, b) == IF a >= 0 THEN a % b ELSE -((-a) % b)

\* ToIntegerOrInfinity of the quotient a / b: truncation toward zero.
Truncate(a, b) == IF a >= 0 THEN a \div b ELSE -((-a) \div b)

\* Date fields (year, month 0..11, day >= 1) to a calendar date.
RECURSIVE MakeDay(_, _, _)
MakeDay(year, month, day) ==
  IF day <= numberOfDaysInMonth(year, month)
    THEN [year |-> year, month |-> month, day |-> day]
    ELSE MakeDay(IF month = 11 THEN year + 1 ELSE year, (month + 1) % 12,
                 day - numberOfDaysInMonth(year, month))

\* Date.setFullYear with the year numerator / 12: MakeDay truncates the year.
setFullYear(d, numerator) == MakeDay(Truncate(numerator, 12), d.month, d.day)

setDate(d, day) == MakeDay(d.year, d.month, day)

setMonth(d, month) == MakeDay(d.year, month, d.day)

\* PrimeDate.plusMonths (part_001:148-174).  deltaYears = number / 12 is a
\* fraction, kept here in twelfths.
plusMonths(d, number) ==
  IF number = 0 THEN d
  ELSE LET newMonth == d.month + Rem(number, 12)
           deltaYears == IF newMonth < 0 THEN number - 12
                         ELSE IF newMonth >= 12 THEN number + 12
                         ELSE number
           deltaMonths == IF newMonth < 0 THEN newMonth
                          ELSE IF newMonth >= 12 THEN newMonth - 12
                          ELSE Rem(number, 12)
           currentMonth == IF newMonth < 0 THEN 12
                           ELSE IF newMonth >= 12 THEN 0
                           ELSE d.month
           inYear == setFullYear(d, d.year * 12 + deltaYears)
           adjustedMonth == currentMonth + deltaMonths
           clamped == IF inYear.day > DAYS_IN_MONTH[adjustedMonth + 1]
                        THEN setDate(inYear, DAYS_IN_MONTH[adjustedMonth + 1])
                        ELSE inYear
       IN setMonth(clamped, adjustedMonth)

\* The two loops of PrimeDate.plusDays (part_001:69-85).
RECURSIVE plusDaysForward(_, _)
plusDaysForward(d, newDate) ==
  IF newDate > numberOfDaysInMonth(d.year, d.month)
    THEN plusDaysForward(plusMonths(d, 1), newDate - numberOfDaysInMonth(d.year, d.month))
    ELSE setDate(d, newDate)

RECURSIVE plusDaysBackward(_, _)
plusDaysBackward(d, newDate) ==
  IF newDate <= 0
    THEN LET back == plusMonths(d, -1)
         IN plusDaysBackward(back, newDate + numberOfDaysInMonth(back.year, back.month))
    ELSE setDate(d, newDate)

\* PrimeDate.plusDays (part_001:61-86).
plusDays(d, number) ==
  IF number = 0 THEN d
  ELSE IF d.day + number > 0 THEN plusDaysForward(d, d.day + number)
  ELSE plusDaysBackward(d, d.day + number)

Years == 2019..2020
MonthCounts == -14..14
DayCounts == {-40, -31, -1, 0, 1, 31, 40}

Dates ==
  {d \in [year : Years, month : 0..11, day : 1..31] :
     d.day <= numberOfDaysInMonth(d.year, d.month)}

InitDate ==
  /\ \E d \in Dates :
       date = [widget |-> "Date", op |-> "new", number |-> 0, before |-> d, value |-> d]
  /\ OnlyWidget("date")

dateRest == <<touchable, ajaxDialog, slideOpen, template, datePicker>>

PlusMonths(number) ==
  /\ date.op = "new"
  /\ date' = [date EXCEPT !.op = "plusMonths", !.number = number,
                          !.value = plusMonths(date.value, number)]
  /\ UNCHANGED <<multipleSelectVars, dateRest>>

PlusDays(number) ==
  /\ date.op = "new"
  /\ date' = [date EXCEPT !.op = "plusDays", !.number = number,
                          !.value = plusDays(date.value, number)]
  /\ UNCHANGED <<multipleSelectVars, dateRest>>

NextDate ==
  \/ \E number \in MonthCounts : PlusMonths(number)
  \/ \E number \in DayCounts : PlusDays(number)

SpecDate == InitDate /\ [][NextDate]_vars

Min(a, b) == IF a <= b THEN a ELSE b

\* C31: for every date and every integer n, positive or negative,
\* plusMonths(date, n) changes year * 12 + month by exactly n and keeps the day
\* of month unless it exceeds the length of the target month, in which case
\* the day is clamped into the target month.
C31_PlusMonthsMovesByNMonthsAndClampsTheDay ==
  date.op = "plusMonths" =>
    /\ date.value.year * 12 + date.value.month
         = date.before.year * 12 + date.before.month + date.number
    /\ date.value.day
         = Min(date.before.day, numberOfDaysInMonth(date.value.year, date.value.month))

(***************************************************************************)
(* Touchable (src/unnamed/part_001).  The record holds the fields of the   *)
(* widget, the clock read by new Date().getTime(), the custom events the   *)
(* last handler fired, and the gesture as the events reported it.          *)
(***************************************************************************)
Abs(n) == IF n < 0 THEN -n ELSE n

PageXs == {0, 50, 101}
PageYs == {0, 51}
Clock == 0..501
Delays == {250, 251}
TouchPoints == {1, 2}

NoGesture == [single |-> FALSE, x |-> 0, y |-> 0, at |-> 0]

\* The listeners are attached by initialize() before any touch begins; the
\* fields the constructor does not assign are read only after a touchstart
\* has assigned them (the handlers below are guarded by started).
InitTouch ==
  /\ touchable = [widget |-> "Touchable", now |-> 0, started |-> FALSE,
                  touchStarted |-> 0, touchStartX |-> 0, touchStartY |-> 0,
                  elapsedTime |-> 0, touchEndX |-> 0, touchEndY |-> 0,
                  touchX |-> 0, touchY |-> 0,
                  fired |-> {}, event |-> "none", points |-> 0, gesture |-> NoGesture]
  /\ OnlyWidget("touchable")

touchRest == <<date, ajaxDialog, slideOpen, template, datePicker>>

\* _collectTouchData (part_001:388-400).
_collectTouchData(t, points, pageX, pageY) ==
  IF points > 1 THEN t
  ELSE [t EXCEPT !.elapsedTime = t.now - t.touchStarted,
                 !.touchEndX = pageX,
                 !.touchEndY = pageY,
                 !.touchX = t.touchStartX - pageX,
                 !.touchY = t.touchStartY - pageY]

\* A swipe from 50 pixels on.
swipe_AtFifty(touchX, touchY) == Abs(touchX) >= 50 \/ Abs(touchY) >= 50

\* event.swipe of _finished (part_001:420).
swipe(touchX, touchY) == Abs(touchX) > 50 \/ Abs(touchY) > 50

\* _finished (part_001:407-436): the custom events fired on the element.
_finished(t) ==
  LET swipeX == swipe(t.touchX, t.touchY) /\ Abs(t.touchX) > Abs(t.touchY)
      swipeY == swipe(t.touchX, t.touchY) /\ ~swipeX
      longPress == ~swipe(t.touchX, t.touchY) /\ t.elapsedTime > 500
  IN IF longPress THEN {"longPress"}
     ELSE IF swipeX /\ t.touchX > 0 THEN {"swipeLeft"}
     ELSE IF swipeX THEN {"swipeRight"}
     ELSE IF swipeY /\ t.touchY > 0 THEN {"swipeUp"}
     ELSE IF swipeY THEN {"swipeDown"}
     ELSE {}

\* _handleTouchStart (part_001:485-502).
HandleTouchStart(points, pageX, pageY) ==
  /\ touchable' =
       IF points > 1
         THEN [touchable EXCEPT !.fired = {}, !.event = "touchstart", !.points = points,
                                !.gesture = NoGesture]
         ELSE [touchable EXCEPT !.started = TRUE,
                                !.touchStarted = touchable.now,
                                !.touchStartX = pageX,
                                !.touchStartY = pageY,
                                !.fired = {}, !.event = "touchstart", !.points = points,
                                !.gesture = [single |-> TRUE, x |-> pageX, y |-> pageY,
                                             at |-> touchable.now]]
  /\ UNCHANGED <<multipleSelectVars, touchRest>>

Ended(event, points, pageX, pageY) ==
  LET collected == _collectTouchData(touchable, points, pageX, pageY) IN
  /\ touchable.started
  /\ touchable' = [collected EXCEPT !.fired = _finished(collected), !.event = event,
                                    !.points = points]
  /\ UNCHANGED <<multipleSelectVars, touchRest>>

\* _handleTouchEnd (part_001:458-464).
HandleTouchEnd(points, pageX, pageY) == Ended("touchend", points, pageX, pageY)

\* _handleTouchCancel (part_001:444-450).
HandleTouchCancel(points, pageX, pageY) == Ended("touchcancel", points, pageX, pageY)

\* _handleTouchMove (part_001:472-477).
HandleTouchMove ==
  /\ touchable.started
  /\ touchable' = [touchable EXCEPT !.fired = {"move"}, !.event = "touchmove", !.points = 1]
  /\ UNCHANGED <<multipleSelectVars, touchRest>>

\* Time passes between two events.
TouchClock(delay) ==
  /\ touchable.now + delay \in Clock
  /\ touchable' = [touchable EXCEPT !.now = touchable.now + delay, !.event = "clock",
                                     !.points = 0]
  /\ UNCHANGED <<multipleSelectVars, touchRest>>

NextTouch ==
  \/ \E p \in TouchPoints : \E x \in PageXs : \E y \in PageYs : HandleTouchStart(p, x, y)
  \/ \E p \in TouchPoints : \E x \in PageXs : \E y \in PageYs : HandleTouchEnd(p, x, y)
  \/ \E p \in TouchPoints : \E x \in PageXs : \E y \in PageYs : HandleTouchCancel(p, x, y)
  \/ HandleTouchMove
  \/ \E delay \in Delays : TouchClock(delay)

SpecTouch == InitTouch /\ [][NextTouch]_vars

\* The end of a gesture that began with a single touch and ends with one.
SingleTouchEnded ==
  /\ touchable.event \in {"touchend", "touchcancel"}
  /\ touchable.points = 1
  /\ touchable.gesture.single

\* C32: when a single-touch gesture ends (touchend or touchcancel), at most
\* one of longPress, swipeLeft, swipeRight, swipeUp, swipeDown is fired:
\* longPress iff neither |dx| nor |dy| exceeds 50 and the elapsed time exceeds
\* 500 ms; a horizontal swipe iff some distance exceeds 50 and |dx| > |dy|
\* (left when startX - endX > 0, else right); a vertical swipe iff some
\* distance exceeds 50 and |dx| <= |dy| (up when startY - endY > 0, else
\* down); a short tap fires none.
C32_OneGestureEventByDistanceAndTime ==
  SingleTouchEnded =>
    LET dx == touchable.gesture.x - touchable.touchEndX
        dy == touchable.gesture.y - touchable.touchEndY
        elapsed == touchable.now - touchable.gesture.at
        far == Abs(dx) > 50 \/ Abs(dy) > 50
    IN /\ Cardinality(touchable.fired) <= 1
       /\ touchable.fired \subseteq {"longPress", "swipeLeft", "swipeRight", "swipeUp",
                                     "swipeDown"}
       /\ "longPress" \in touchable.fired <=> (~far /\ elapsed > 500)
       /\ "swipeLeft" \in touchable.fired <=> (far /\ Abs(dx) > Abs(dy) /\ dx > 0)
       /\ "swipeRight" \in touchable.fired <=> (far /\ Abs(dx) > Abs(dy) /\ ~(dx > 0))
       /\ "swipeUp" \in touchable.fired <=> (far /\ Abs(dx) <= Abs(dy) /\ dy > 0)
       /\ "swipeDown" \in touchable.fired <=> (far /\ Abs(dx) <= Abs(dy) /\ ~(dy > 0))
       /\ (~far /\ elapsed <= 500) => touchable.fired = {}

\* A gesture of exactly 50 pixels and more than 500 ms has ended as a long press.
C32_Witness ==
  /\ SingleTouchEnded
  /\ Abs(touchable.gesture.x - touchable.touchEndX) = 50
  /\ touchable.now - touchable.gesture.at > 500
  /\ touchable.fired = {"longPress"}

(***************************************************************************)
(* AJAXDialog (src/unnamed/part_004).  The record holds the fields of one  *)
(* AJAXDialog, its requests in flight, its pending close callbacks (all    *)
(* with the same closeTimeout, so they run in the order they were set),    *)
(* the elements with the dialog class in the document, and the Overlay.    *)
(* An element is a record with its id, whether it has the class 'open',    *)
(* and its z-index style (styled FALSE: the computed z-index is 'auto' and *)
(* parseInt gives NaN).                                                    *)
(***************************************************************************)
zIndexOffset == 1000

DialogIds == 1..3
NoElement == 0

\* A dialog of another AJAXDialog instance that is open on the page.
OtherDialog == [id |-> 9, open |-> TRUE, styled |-> TRUE, zIndex |-> zIndexOffset + 10]

\* PrimeElement.isVisible of a dialog element: the stylesheet decides whether
\* a dialog without the class 'open' is displayed.
isVisible(a, dialog) == dialog.open \/ a.closedVisible

Max(S) == CHOOSE m \in S : \A n \in S : n <= m

\* determineZIndex (part_004:304-313): NaN > highestZIndex is false.
determineZIndex(a) ==
  LET indexes == {d.zIndex : d \in {e \in a.document : isVisible(a, e) /\ e.styled}}
  IN Max(indexes \cup {0})

\* The constructor (part_004:55-62) on a page with or without another dialog.
InitDialog ==
  /\ \E others \in {{}, {OtherDialog}} : \E closedVisible \in BOOLEAN :
       ajaxDialog = [widget |-> "AJAXDialog", element |-> NoElement, initialized |-> FALSE,
                     requests |-> 0, timers |-> <<>>, created |-> 0,
                     document |-> others, closedVisible |-> closedVisible,
                     overlay |-> IF others = {} THEN [open |-> FALSE, zIndex |-> 0]
                                 ELSE [open |-> TRUE, zIndex |-> zIndexOffset],
                     last |-> "new", threw |-> FALSE, closed |-> NoElement]
  /\ OnlyWidget("ajaxDialog")

dialogRest == <<date, touchable, slideOpen, template, datePicker>>

Current(a) == CHOOSE d \in a.document : d.id = a.element

\* open (part_004:113-119): the request goes out.
DialogOpen ==
  /\ ajaxDialog.created + ajaxDialog.requests + 1 \in DialogIds
  /\ ajaxDialog' = [ajaxDialog EXCEPT !.requests = @ + 1, !.last = "open", !.threw = FALSE]
  /\ UNCHANGED <<multipleSelectVars, dialogRest>>

\* initializeDialog (part_004:369-405) on the element this.element.
initializeDialog(a) ==
  IF ~a.initialized
    THEN LET highestZIndex == determineZIndex(a)
             opened == [id |-> a.element, open |-> TRUE, styled |-> TRUE,
                        zIndex |-> highestZIndex + zIndexOffset + 10]
         IN [a EXCEPT !.overlay = [open |-> TRUE, zIndex |-> highestZIndex + zIndexOffset],
                      !.document = (a.document \ {Current(a)}) \cup {opened},
                      !.initialized = TRUE]
    ELSE a

\* handleAJAXDialogResponse (part_004:320-323): a new element is appended to
\* the body, then setHTML (part_004:145-149) runs initializeDialog.
handleAJAXDialogResponse(a) ==
  LET id == a.created + 1
      appended == [a EXCEPT !.element = id, !.created = id,
                            !.document = @ \cup {[id |-> id, open |-> FALSE, styled |-> FALSE,
                                                  zIndex |-> 0]}]
  IN initializeDialog(appended)

HandleAJAXDialogResponse ==
  /\ ajaxDialog.requests > 0
  /\ ajaxDialog' = [handleAJAXDialogResponse(ajaxDialog) EXCEPT
                      !.requests = @ - 1, !.last = "response", !.threw = FALSE]
  /\ UNCHANGED <<multipleSelectVars, dialogRest>>

\* close (part_004:68-88): this.element.removeClass throws a TypeError when
\* this.element is null, before the timer is set.
DialogClose ==
  /\ Len(ajaxDialog.timers) < 2
  /\ ajaxDialog' =
       IF ajaxDialog.element = NoElement
         THEN [ajaxDialog EXCEPT !.last = "close", !.threw = TRUE]
         ELSE [ajaxDialog EXCEPT
                 !.document = (@ \ {Current(ajaxDialog)})
                                \cup {[Current(ajaxDialog) EXCEPT !.open = FALSE]},
                 !.timers = Append(@, ajaxDialog.element),
                 !.last = "close", !.threw = FALSE]
  /\ UNCHANGED <<multipleSelectVars, dialogRest>>

\* The callback close hands to setTimeout (part_004:75-85).  The head of
\* timers is the element close was called on; the callback reads this.element.
closeCallback(a) ==
  IF a.element = NoElement
    THEN [a EXCEPT !.threw = TRUE]
    ELSE LET removed == [a EXCEPT !.document = @ \ {Current(a)}, !.element = NoElement]
             highestZIndex == determineZIndex(removed)
         IN [removed EXCEPT
               !.overlay = IF highestZIndex # 0 THEN [@ EXCEPT !.zIndex = highestZIndex]
                           ELSE [@ EXCEPT !.open = FALSE],
               !.threw = FALSE]

CloseCallback ==
  /\ ajaxDialog.timers # <<>>
  /\ ajaxDialog' = [closeCallback(ajaxDialog) EXCEPT
                      !.timers = Tail(@), !.last = "closeCallback",
                      !.closed = Head(ajaxDialog.timers)]
  /\ UNCHANGED <<multipleSelectVars, dialogRest>>

NextDialog ==
  \/ DialogOpen
  \/ HandleAJAXDialogResponse
  \/ DialogClose
  \/ CloseCallback

SpecDialog == InitDialog /\ [][NextDialog]_vars

VisibleDialogs == {d \in ajaxDialog.document : isVisible(ajaxDialog, d)}

\* C33: after close() and the elapse of closeTimeout the dialog element is
\* removed from the document and set to null, and the overlay is closed if and
\* only if no other visible dialog of the same class remains; otherwise the
\* overlay's z-index is the highest z-index among the remaining visible dialogs.
C33_ClosedDialogRemovedAndOverlayUpdated ==
  ajaxDialog.last = "closeCallback" =>
    /\ \A d \in ajaxDialog.document : d.id # ajaxDialog.closed
    /\ ajaxDialog.element = NoElement
    /\ ~ajaxDialog.overlay.open <=> VisibleDialogs = {}
    /\ ajaxDialog.overlay.open =>
         ajaxDialog.overlay.zIndex = Max({d.zIndex : d \in VisibleDialogs})

\* C36: for any interleaving of open responses, close() calls and deferred
\* close callbacks of one AJAXDialog, neither close() nor its callback ever
\* dereferences a null element: a close() before any response and two close()
\* calls within closeTimeout of each other complete without error.
C36_CloseNeverDereferencesNull == ~ajaxDialog.threw

\* C37: every time an AJAXDialog handles an open response, including a second
\* open() after the dialog was closed, the new dialog element receives the
\* 'open' class and a z-index above the overlay, and the overlay is opened.
\* The formula takes the responses handled while no earlier element of this
\* AJAXDialog is in the document: the first open and an open after a close.
C37_EveryResponseOpensTheDialog ==
  (/\ ajaxDialog.last = "response"
   /\ \A d \in ajaxDialog.document : d.id \in {ajaxDialog.element, OtherDialog.id}) =>
    /\ Current(ajaxDialog).open
    /\ Current(ajaxDialog).styled
    /\ ajaxDialog.overlay.open
    /\ Current(ajaxDialog).zIndex > ajaxDialog.overlay.zIndex

(***************************************************************************)
(* SlideOpen (src/src/main/js/Effects.js).  The element has content, so    *)
(* getHeight() is 0 exactly when the height style is '0'.  The height is   *)
(* "0", "visible" (the fixed primeVisibleHeight) or "auto".  A timer is    *)
(* the callback it runs and the milliseconds left; timers are kept in the  *)
(* order they were set, which is the order setTimeout runs equal deadlines.*)
(***************************************************************************)
SlideCalls == 1..3

\* The constructor (Effects.js:227-238) on an element that is open or closed.
InitSlide ==
  /\ \E isOpenNow \in BOOLEAN :
       slideOpen = [widget |-> "SlideOpen",
                    height |-> IF isOpenNow THEN "auto" ELSE "0",
                    open |-> isOpenNow, timers |-> <<>>, calls |-> 0, lastCall |-> "new"]
  /\ OnlyWidget("slideOpen")

slideRest == <<date, touchable, ajaxDialog, template, datePicker>>

\* isOpen (Effects.js:255-257).
isOpen(s) == s.height # "0" \/ s.open

\* close (Effects.js:240-253).
SlideClose ==
  /\ slideOpen.calls + 1 \in SlideCalls
  /\ slideOpen' =
       IF ~isOpen(slideOpen)
         THEN [slideOpen EXCEPT !.calls = @ + 1, !.lastCall = "close"]
         ELSE [slideOpen EXCEPT !.height = "visible",
                                !.timers = Append(@, [run |-> "close", left |-> 50]),
                                !.calls = @ + 1, !.lastCall = "close"]
  /\ UNCHANGED <<multipleSelectVars, slideRest>>

\* open (Effects.js:259-265).
SlideOpenOpen ==
  /\ slideOpen.calls + 1 \in SlideCalls
  /\ slideOpen' = [slideOpen EXCEPT !.height = "visible",
                                    !.timers = Append(@, [run |-> "open", left |-> 500]),
                                    !.calls = @ + 1, !.lastCall = "open"]
  /\ UNCHANGED <<multipleSelectVars, slideRest>>

Due(s) == {i \in 1..Len(s.timers) : s.timers[i].left = 0}

\* The timer that is due and was set first runs its callback
\* (Effects.js:249-252 and 261-264).
SlideTimer ==
  /\ Due(slideOpen) # {}
  /\ LET i == CHOOSE j \in Due(slideOpen) : \A k \in Due(slideOpen) : j <= k
         rest == [j \in 1..(Len(slideOpen.timers) - 1) |->
                    IF j < i THEN slideOpen.timers[j] ELSE slideOpen.timers[j + 1]]
     IN slideOpen' =
          IF slideOpen.timers[i].run = "close"
            THEN [slideOpen EXCEPT !.height = "0", !.open = FALSE, !.timers = rest]
            ELSE [slideOpen EXCEPT !.height = "auto", !.open = TRUE, !.timers = rest]
  /\ UNCHANGED <<multipleSelectVars, slideRest>>

\* 50 ms pass while no timer is due.
SlideClock ==
  /\ slideOpen.timers # <<>>
  /\ Due(slideOpen) = {}
  /\ slideOpen' = [slideOpen EXCEPT
                     !.timers = [j \in 1..Len(@) |-> [@[j] EXCEPT !.left = @ - 50]]]
  /\ UNCHANGED <<multipleSelectVars, slideRest>>

NextSlide ==
  \/ SlideOpenOpen
  \/ SlideClose
  \/ SlideTimer
  \/ SlideClock

SpecSlide == InitSlide /\ [][NextSlide]_vars

\* C38: for any sequence of open() and close() calls on one SlideOpen and any
\* timing of their timers, once all pending timers have fired the element has
\* the 'open' class if and only if the last call was open(); open() followed
\* by close() before the 500 ms open timer fires ends closed with height 0.
C38_SettlesToTheLastCall ==
  (slideOpen.timers = <<>> /\ slideOpen.lastCall # "new") =>
    /\ slideOpen.open <=> slideOpen.lastCall = "open"
    /\ slideOpen.lastCall = "close" => slideOpen.height = "0"

(***************************************************************************)
(* Template.generate (src/src/main/ts/Template.ts).  The parameters are a  *)
(* list of key / value pairs in the order for-in visits them.  The values  *)
(* are strings without '$', so String.replace inserts them literally.      *)
(* One step of the model is one step of the for loop or one iteration of   *)
(* the while loop; odd is the parity of the while iterations run so far.   *)
(***************************************************************************)
\* String.prototype.indexOf, 1-based; 0 stands for -1.
indexOf(s, sub) ==
  IF Includes(s, sub)
    THEN CHOOSE k \in 1..(Len(s) - Len(sub) + 1) :
           /\ SubSeq(s, k, k + Len(sub) - 1) = sub
           /\ \A j \in 1..(k - 1) : SubSeq(s, j, j + Len(sub) - 1) # sub
    ELSE 0

\* String.prototype.replace with a string pattern: the first occurrence.
replace(s, sub, value) ==
  LET k == indexOf(s, sub)
  IN IF k = 0 THEN s
     ELSE SubSeq(s, 1, k - 1) \o value \o SubSeq(s, k + Len(sub), Len(s))

\* String.prototype.replace with a global RegExp of literal characters: every
\* occurrence, left to right, the inserted text is not searched again.
RECURSIVE replaceAll(_, _, _)
replaceAll(s, sub, value) ==
  LET k == indexOf(s, sub)
  IN IF k = 0 THEN s
     ELSE SubSeq(s, 1, k - 1) \o value \o replaceAll(SubSeq(s, k + Len(sub), Len(s)), sub, value)

KeyA == <<"a">>
KeyB == <<"b">>
KeyRegexX == <<"/", "x", "/">>

expressedKey(key) == <<"#", "{">> \o key \o <<"}">>

isRegexKey(key) == key[1] = "/" /\ key[Len(key)] = "/"

TemplateKeys == {KeyA, KeyB, KeyRegexX}
TemplateValues == {<<>>, <<"x">>, expressedKey(KeyA), expressedKey(KeyB)}
Templates ==
  {expressedKey(KeyA), expressedKey(KeyB), <<"x">> \o expressedKey(KeyA) \o expressedKey(KeyB)}

\* Objects with up to two own properties.
ParameterMaps ==
  {<<>>}
    \cup {<<[key |-> k, value |-> v]>> : k \in TemplateKeys, v \in TemplateValues}
    \cup {<<p, q>> : p, q \in [key : TemplateKeys, value : TemplateValues]}

\* new Template(template) and the entry of generate(parameters)
\* (Template.ts:48-50).
InitTemplate ==
  /\ \E t \in Templates : \E parameters \in {p \in ParameterMaps :
                                               Len(p) = 2 => p[1].key # p[2].key} :
       template = [widget |-> "Template", template |-> t, parameters |-> parameters,
                   templateCopy |-> t, pc |-> "for", index |-> 1, odd |-> FALSE]
  /\ OnlyWidget("template")

templateRest == <<date, touchable, ajaxDialog, slideOpen, datePicker>>

\* One step of the for loop (Template.ts:51-72): the next key, the regex
\* branch in full, or the return.
ForStep ==
  /\ template.pc = "for"
  /\ template' =
       IF template.index > Len(template.parameters)
         THEN [template EXCEPT !.pc = "returned"]
       ELSE LET p == template.parameters[template.index] IN
         IF isRegexKey(p.key)
           THEN [template EXCEPT
                   !.templateCopy = replaceAll(@, SubSeq(p.key, 2, Len(p.key) - 1), p.value),
                   !.index = @ + 1]
           ELSE [template EXCEPT !.pc = "while"]
  /\ UNCHANGED <<multipleSelectVars, templateRest>>

\* One test of the while condition and, when it holds, one run of its body
\* (Template.ts:65-67).
WhileStep ==
  /\ template.pc = "while"
  /\ LET p == template.parameters[template.index]
         expressed == expressedKey(p.key)
     IN template' =
          IF indexOf(template.templateCopy, expressed) # 0
            THEN [template EXCEPT !.templateCopy = replace(@, expressed, p.value),
                                  !.odd = ~@]
            ELSE [template EXCEPT !.pc = "for", !.index = @ + 1]
  /\ UNCHANGED <<multipleSelectVars, templateRest>>

NextTemplate ==
  \/ ForStep
  \/ WhileStep

\* generate runs to its end once called: nothing else runs on the thread.
SpecTemplate == InitTemplate /\ [][NextTemplate]_vars /\ WF_vars(NextTemplate)

PlainKeysSupplied ==
  {template.parameters[i].key : i \in
     {j \in 1..Len(template.parameters) : ~isRegexKey(template.parameters[j].key)}}

\* C39: Template.generate(parameters) terminates for every template and every
\* parameter map, including when the replacement value of a plain key contains
\* that key's own placeholder #{key}, and on return the result contains no
\* occurrence of #{key} for any plain key supplied.
\* The formula is the first half, termination; NoPlaceholderOnReturn is the second.
C39_GenerateTerminates == <>(template.pc = "returned")

NoPlaceholderOnReturn ==
  template.pc = "returned" =>
    \A key \in PlainKeysSupplied : indexOf(template.templateCopy, expressedKey(key)) = 0

(***************************************************************************)
(* Prime.Widgets.DatePicker (src/unnamed/part_003): the month span with    *)
(* its data-month attribute and its text.                                  *)
(***************************************************************************)
months ==
  <<"January", "February", "March", "April", "May", "June", "July", "August",
    "September", "October", "November", "December">>

\* this.months[key] as text: a key the table does not have reads undefined.
monthName(key) == IF key \in DOMAIN months THEN months[key] ELSE "undefined"

\* The values of new Date().getMonth().
GetMonths == 0..11

\* _buildDatePicker (part_003:80-93), called by the constructor.
_buildDatePicker(nowMonth) ==
  [widget |-> "DatePicker", built |-> nowMonth, dataMonth |-> nowMonth,
   html |-> monthName(nowMonth), clicks |-> 0, last |-> "new"]

InitPicker ==
  /\ \E nowMonth \in GetMonths : datePicker = _buildDatePicker(nowMonth)
  /\ OnlyWidget("datePicker")

pickerRest == <<date, touchable, ajaxDialog, slideOpen, template>>

ClickCounts == 0..13

\* _handleNextMonth (part_003:99-106).
HandleNextMonth ==
  /\ datePicker.clicks + 1 \in ClickCounts
  /\ LET current == datePicker.dataMonth IN
     datePicker' =
       IF current < 12
         THEN [datePicker EXCEPT !.dataMonth = current + 1, !.html = monthName(current + 1),
                                 !.clicks = @ + 1, !.last = "next"]
         ELSE [datePicker EXCEPT !.clicks = @ + 1, !.last = "next"]
  /\ UNCHANGED <<multipleSelectVars, pickerRest>>

\* _handlePreviousMonth (part_003:112-119).
HandlePreviousMonth ==
  /\ datePicker.clicks + 1 \in ClickCounts
  /\ LET current == datePicker.dataMonth IN
     datePicker' =
       IF current > 1
         THEN [datePicker EXCEPT !.dataMonth = current - 1, !.html = monthName(current - 1),
                                 !.clicks = @ + 1, !.last = "previous"]
         ELSE [datePicker EXCEPT !.clicks = @ + 1, !.last = "previous"]
  /\ UNCHANGED <<multipleSelectVars, pickerRest>>

NextPicker ==
  \/ HandleNextMonth
  \/ HandlePreviousMonth

SpecPicker == InitPicker /\ [][NextPicker]_vars

\* C40: from construction on and after any sequence of next-month and
\* previous-month clicks, the data-month value is an integer in 1..12 and the
\* displayed month name is the entry of the months table for that value.
C40_DataMonthNamesTheDisplayedMonth ==
  /\ datePicker.dataMonth \in 1..12
  /\ datePicker.html = months[datePicker.dataMonth]

====
